---- MODULE Spec2Model ----
(***************************************************************************)
(* ContextBuilder: the ingestion / update engine.                          *)
(*                                                                         *)
(* Text is modelled with TLA+ strings at character level (Len, SubSeq and  *)
(* \o work on strings), so URL normalisation, path derivation, glob        *)
(* matching and host classification are computed the way the Rust code     *)
(* computes them.                                                          *)
(***************************************************************************)
EXTENDS Integers, Sequences, FiniteSets, TLC

(***************************************************************************)
(* Bounds of the model                                                     *)
(***************************************************************************)
\* largest crawl depth explored (CrawlConfig.depth is 0..MaxDepth)
MaxDepth == 2
\* largest concurrency explored (CrawlConfig.concurrency is 0..MaxConcurrency)
MaxConcurrency == 2
\* number of injected per-page failures explored in one crawl
MaxFaults == 2

(***************************************************************************)
(* String helpers (std::str)                                               *)
(***************************************************************************)
CharAt(s, i) == SubSeq(s, i, i)

StartsWith(s, p) == Len(p) <= Len(s) /\ SubSeq(s, 1, Len(p)) = p

EndsWith(s, p) == Len(p) <= Len(s) /\ SubSeq(s, Len(s) - Len(p) + 1, Len(s)) = p

\* s.matches(c).count() for a one-character pattern
CountChar(s, c) == Cardinality({i \in 1..Len(s) : CharAt(s, i) = c})

Contains(s, c) == \E i \in 1..Len(s) : CharAt(s, i) = c

RECURSIVE TrimEndMatches(_, _)
TrimEndMatches(s, p) ==
    IF EndsWith(s, p) THEN TrimEndMatches(SubSeq(s, 1, Len(s) - Len(p)), p) ELSE s

RECURSIVE TrimStartMatches(_, _)
TrimStartMatches(s, p) ==
    IF StartsWith(s, p) THEN TrimStartMatches(SubSeq(s, Len(p) + 1, Len(s)), p) ELSE s

\* s.split(c) for a one-character separator: the sequence of the pieces
RECURSIVE SplitFrom(_, _, _, _)
SplitFrom(s, c, i, start) ==
    IF i > Len(s) THEN <<SubSeq(s, start, Len(s))>>
    ELSE IF CharAt(s, i) = c
         THEN <<SubSeq(s, start, i - 1)>> \o SplitFrom(s, c, i + 1, i + 1)
         ELSE SplitFrom(s, c, i + 1, start)

Split(s, c) == SplitFrom(s, c, 1, 1)

HexDigits == "0123456789abcdef"

IsDecDigit(c) == \E i \in 1..10 : CharAt(HexDigits, i) = c
IsHexDigit(c) == \E i \in 1..16 : CharAt(HexDigits, i) = c
DigitVal(c) == (CHOOSE i \in 1..16 : CharAt(HexDigits, i) = c) - 1

RECURSIVE NumVal(_, _)
NumVal(s, base) ==
    IF Len(s) = 0 THEN 0
    ELSE NumVal(SubSeq(s, 1, Len(s) - 1), base) * base + DigitVal(CharAt(s, Len(s)))

(***************************************************************************)
(* std::net: parsing of IP address text                                    *)
(***************************************************************************)
\* one decimal octet: 1..3 digits, no leading zero, at most 255; -1 = error
ParseOctet(p) ==
    IF /\ Len(p) \in 1..3
       /\ \A i \in 1..Len(p) : IsDecDigit(CharAt(p, i))
       /\ (Len(p) > 1 => CharAt(p, 1) # "0")
       /\ NumVal(p, 10) <= 255
    THEN NumVal(p, 10) ELSE -1

\* "a.b.c.d".parse::<Ipv4Addr>(): the four octets, or <<>> on error
ParseIpv4(s) ==
    LET parts == Split(s, ".") IN
    IF Len(parts) = 4 /\ \A i \in 1..4 : ParseOctet(parts[i]) >= 0
    THEN [i \in 1..4 |-> ParseOctet(parts[i])] ELSE <<>>

IsHexGroup(p) == Len(p) \in 1..4 /\ \A i \in 1..Len(p) : IsHexDigit(CharAt(p, i))

\* text.parse::<Ipv6Addr>(): the eight groups, or <<>> on error.  Brackets
\* are not part of the address syntax, so bracketed text does not parse.
ParseIpv6(s) ==
    LET parts  == Split(s, ":")
        n      == Len(parts)
        empt   == {i \in 1..n : parts[i] = ""}
        full   == n = 8 /\ empt = {}
        lo     == IF empt = {} THEN 0 ELSE CHOOSE i \in empt : \A j \in empt : i <= j
        hi     == IF empt = {} THEN 0 ELSE CHOOSE i \in empt : \A j \in empt : i >= j
        pre    == SubSeq(parts, 1, lo - 1)
        post   == SubSeq(parts, hi + 1, n)
        \* a single "::" shows as a run of empty pieces touching at most the ends
        compr  == /\ empt # {}
                  /\ empt = lo..hi
                  /\ hi - lo + 1 <= (IF lo = 1 \/ hi = n THEN (IF lo = 1 /\ hi = n THEN 3 ELSE 2) ELSE 1)
                  /\ (lo = 1 => hi >= 2)
                  /\ (hi = n => lo <= n - 1)
                  /\ Len(pre) + Len(post) <= 7
        groupsOk == \A i \in (1..n) \ empt : IsHexGroup(parts[i])
    IN  IF ~groupsOk THEN <<>>
        ELSE IF full THEN [i \in 1..8 |-> NumVal(parts[i], 16)]
        ELSE IF compr
             THEN [i \in 1..8 |->
                     IF i <= Len(pre) THEN NumVal(pre[i], 16)
                     ELSE IF i > 8 - Len(post) THEN NumVal(post[i - (8 - Len(post))], 16)
                     ELSE 0]
        ELSE <<>>

\* host.parse::<IpAddr>(): [v |-> 4, a |-> octets], [v |-> 6, a |-> groups] or
\* [v |-> 0] when the text is neither
ParseIpAddr(s) ==
    IF ParseIpv4(s) # <<>> THEN [v |-> 4, a |-> ParseIpv4(s)]
    ELSE IF ParseIpv6(s) # <<>> THEN [v |-> 6, a |-> ParseIpv6(s)]
    ELSE [v |-> 0, a |-> <<>>]

(***************************************************************************)
(* url::Url.  A parsed URL is a record of its components as they appear in *)
(* the serialisation: port is "" or ":N", query is "" or "?...", fragment  *)
(* is "" or "#...", and an IPv6 host carries its brackets.                 *)
(***************************************************************************)
Url(scheme, host, port, path, query, fragment) ==
    [scheme |-> scheme, host |-> host, port |-> port, path |-> path,
     query |-> query, fragment |-> fragment]

\* Url::to_string / as_str
UrlString(u) ==
    u.scheme \o "://" \o u.host \o u.port \o u.path \o u.query \o u.fragment

\* Url::host_str: the host exactly as serialised
host_str(u) == u.host

\* Url::set_fragment(None)
StripFragment(u) == [u EXCEPT !.fragment = ""]

(***************************************************************************)
(* Crawl scope                                                             *)
(***************************************************************************)
\* glob_to_regex followed by Regex::is_match: the pattern is escaped, then
\* "**" becomes ".*", "*" becomes "[^/]*", "?" becomes ".", and the result
\* is anchored at both ends.  GlobMatchFrom(p, i, s, j) matches p[i..]
\* against s[j..].
RECURSIVE GlobMatchFrom(_, _, _, _)
GlobMatchFrom(p, i, s, j) ==
    IF i > Len(p) THEN j > Len(s)
    ELSE IF CharAt(p, i) = "*" /\ i < Len(p) /\ CharAt(p, i + 1) = "*"
         THEN \E k \in j..(Len(s) + 1) : GlobMatchFrom(p, i + 2, s, k)
    ELSE IF CharAt(p, i) = "*"
         THEN \E k \in j..(Len(s) + 1) :
                  /\ ~Contains(SubSeq(s, j, k - 1), "/")
                  /\ GlobMatchFrom(p, i + 1, s, k)
    ELSE IF CharAt(p, i) = "?"
         THEN j <= Len(s) /\ GlobMatchFrom(p, i + 1, s, j + 1)
    ELSE j <= Len(s) /\ CharAt(s, j) = CharAt(p, i) /\ GlobMatchFrom(p, i + 1, s, j + 1)

glob_to_regex(pattern, path) == GlobMatchFrom(pattern, 1, path, 1)

\* CrawlScope::new
CrawlScope(start_url, config) ==
    [base_path        |-> start_url.path,
     base_host        |-> host_str(start_url),
     include_patterns |-> config.include_patterns,
     exclude_patterns |-> config.exclude_patterns]

\* mutant: the exclude patterns are not consulted
in_scope_no_exclude(scope, url) ==
    IF url.scheme # "http" /\ url.scheme # "https" THEN FALSE
    ELSE IF host_str(url) # scope.base_host THEN FALSE
    ELSE IF scope.include_patterns # {}
         THEN \E p \in scope.include_patterns : glob_to_regex(p, url.path)
    ELSE TRUE

\* CrawlScope::in_scope
in_scope(scope, url) ==
    IF url.scheme # "http" /\ url.scheme # "https" THEN FALSE
    ELSE IF host_str(url) # scope.base_host THEN FALSE
    ELSE IF \E p \in scope.exclude_patterns : glob_to_regex(p, url.path) THEN FALSE
    ELSE IF scope.include_patterns # {}
         THEN \E p \in scope.include_patterns : glob_to_regex(p, url.path)
    ELSE \/ StartsWith(url.path, scope.base_path)
         \/ StartsWith(scope.base_path, url.path)
         \/ StartsWith(url.path, "/")

(***************************************************************************)
(* SSRF protection                                                         *)
(***************************************************************************)
\* is_private_ip
is_private_ip(ip) ==
    IF ip.v = 4
    THEN LET o == ip.a IN
         \/ o[1] = 127                                          \* is_loopback
         \/ o[1] = 10                                           \* is_private
         \/ (o[1] = 172 /\ o[2] \in 16..31)
         \/ (o[1] = 192 /\ o[2] = 168)
         \/ (o[1] = 169 /\ o[2] = 254)                          \* is_link_local
         \/ (\A i \in 1..4 : o[i] = 255)                        \* is_broadcast
         \/ (\A i \in 1..4 : o[i] = 0)                          \* is_unspecified
         \/ (o[1] = 100 /\ o[2] \in 64..127)                    \* 100.64.0.0/10
         \/ (o[1] = 192 /\ o[2] = 0 /\ o[3] = 0)                \* 192.0.0.0/24
    ELSE \/ ip.a = <<0, 0, 0, 0, 0, 0, 0, 1>>                   \* is_loopback
         \/ ip.a = <<0, 0, 0, 0, 0, 0, 0, 0>>                   \* is_unspecified

\* is_ssrf_target
is_ssrf_target(url) ==
    IF url.scheme # "http" /\ url.scheme # "https" THEN TRUE
    ELSE LET host == host_str(url) IN
         IF ParseIpAddr(host).v # 0 THEN is_private_ip(ParseIpAddr(host))
         ELSE \/ host = "localhost"
              \/ host = "127.0.0.1"
              \/ host = "[::1]"
              \/ EndsWith(host, ".local")
              \/ EndsWith(host, ".internal")

(***************************************************************************)
(* URL normalisation, path derivation, hashing                             *)
(***************************************************************************)
\* mutant: the trailing slash is kept
normalize_url_keep_slash(url) == UrlString(StripFragment(url))

\* normalize_url
normalize_url(url) ==
    LET s == UrlString(StripFragment(url)) IN
    IF EndsWith(s, "/") /\ CountChar(s, "/") > 3 THEN SubSeq(s, 1, Len(s) - 1) ELSE s

\* url_to_path
url_to_path(url) ==
    LET cleaned == TrimEndMatches(TrimEndMatches(TrimEndMatches(TrimEndMatches(
                       TrimStartMatches(url.path, "/"), "/"), ".html"), ".htm"), ".md")
    IN  IF cleaned = "" THEN "index" ELSE cleaned

\* compute_hash: SHA-256 is modelled as an injective function of the body
compute_hash(body) == <<"sha256", body>>

(***************************************************************************)
(* Url::parse and Url::join for the URL shapes that occur in a crawl:      *)
(* scheme://host[:port][/path][?query][#fragment]                          *)
(***************************************************************************)
\* position of the first occurrence of the one-character c in s at or after
\* from, or Len(s) + 1 when there is none
RECURSIVE FindChar(_, _, _)
FindChar(s, c, from) ==
    IF from > Len(s) THEN Len(s) + 1
    ELSE IF CharAt(s, from) = c THEN from
    ELSE FindChar(s, c, from + 1)

Min2(a, b) == IF a <= b THEN a ELSE b

\* the path, query and fragment of the text that follows the authority
ParseTail(t) ==
    LET h == FindChar(t, "#", 1)
        q == Min2(FindChar(t, "?", 1), h)
    IN  [path     |-> IF q = 1 THEN "/" ELSE SubSeq(t, 1, q - 1),
         query    |-> SubSeq(t, q, h - 1),
         fragment |-> SubSeq(t, h, Len(t))]

\* Url::parse of an absolute URL; [ok |-> FALSE] on a relative reference
ParseUrl(s) ==
    LET c == FindChar(s, ":", 1) IN
    IF c + 2 > Len(s) \/ SubSeq(s, c, c + 2) # "://" THEN [ok |-> FALSE]
    ELSE LET rest == SubSeq(s, c + 3, Len(s))
             e    == Min2(FindChar(rest, "/", 1),
                          Min2(FindChar(rest, "?", 1), FindChar(rest, "#", 1)))
             auth == SubSeq(rest, 1, e - 1)
             b    == IF StartsWith(auth, "[") THEN FindChar(auth, "]", 1) ELSE 0
             pc   == FindChar(auth, ":", b + 1)
             tail == ParseTail(SubSeq(rest, e, Len(rest)))
         IN  [ok  |-> TRUE,
              url |-> Url(SubSeq(s, 1, c - 1), SubSeq(auth, 1, pc - 1),
                          SubSeq(auth, pc, Len(auth)),
                          tail.path, tail.query, tail.fragment)]

\* Url::join: an absolute href replaces the base, a path-absolute href keeps
\* the base's scheme, host and port
UrlJoin(base, href) ==
    IF ParseUrl(href).ok THEN ParseUrl(href)
    ELSE IF StartsWith(href, "/")
         THEN LET tail == ParseTail(href) IN
              [ok  |-> TRUE,
               url |-> Url(base.scheme, base.host, base.port,
                           tail.path, tail.query, tail.fragment)]
    ELSE [ok |-> FALSE]

\* extract_links: the hrefs of a page, resolved against the page's URL,
\* without fragment, as strings
RECURSIVE extract_links(_, _)
extract_links(hrefs, base_url) ==
    IF hrefs = <<>> THEN <<>>
    ELSE LET href == Head(hrefs)
             rest == extract_links(Tail(hrefs), base_url)
         IN  IF \/ StartsWith(href, "#")
                \/ StartsWith(href, "javascript:")
                \/ StartsWith(href, "mailto:")
             THEN rest
             ELSE IF UrlJoin(base_url, href).ok
                  THEN <<UrlString(StripFragment(UrlJoin(base_url, href).url))>> \o rest
                  ELSE rest

(***************************************************************************)
(* The documentation sites that are crawled.  A site maps the path of each *)
(* page it serves to the page's hrefs and first-h1 title; any other path   *)
(* answers 404.  ver distinguishes two publications of the same site.      *)
(***************************************************************************)
Page(hrefs, title) == [hrefs |-> hrefs, title |-> title]

\* the chain / -> /page2 -> /page3 of the crawler's tests
ChainPages ==
    [p \in {"/", "/page2", "/page3"} |->
        CASE p = "/"      -> Page(<<"/page2">>, "Root")
          [] p = "/page2" -> Page(<<"/page3">>, "Page 2")
          [] p = "/page3" -> Page(<<>>, "Page 3")]

\* a site with duplicate links, a trailing-slash twin, an index.html twin of
\* the root, a blog section, and links that leave the site
MixedPages ==
    [p \in {"/", "/index.html", "/guide", "/guide/", "/blog/post"} |->
        CASE p = "/"           -> Page(<<"/guide/", "/guide#top", "/index.html", "#top",
                                         "https://other.example.com/", "/blog/post",
                                         "ftp://docs.example.com/file", "mailto:a@b.c">>, "Home")
          [] p = "/index.html" -> Page(<<"/", "/guide?tab=1">>, "Home (index)")
          [] p = "/guide"      -> Page(<<"/", "/missing">>, "Guide")
          [] p = "/guide/"     -> Page(<<"/", "/missing">>, "Guide")
          [] p = "/blog/post"  -> Page(<<"/guide">>, "Post")]

Site(name, ver, pages) == [name |-> name, ver |-> ver, pages |-> pages]

Sites == {Site("chain", 1, ChainPages), Site("mixed", 1, MixedPages)}

RECURSIVE Anchors(_)
Anchors(hrefs) ==
    IF hrefs = <<>> THEN ""
    ELSE "<a href='" \o Head(hrefs) \o "'>.</a>" \o Anchors(Tail(hrefs))

\* the HTML a site serves for a URL: it differs between publications of the
\* site and between the resources (path and query) of one publication
BodyOf(site, url) ==
    "<html><!-- v" \o <<"1", "2", "3">>[site.ver] \o " " \o url.path \o url.query \o " -->"
        \o "<h1>" \o site.pages[url.path].title \o "</h1>"
        \o Anchors(site.pages[url.path].hrefs) \o "</html>"

KbId == "kb-1"

(***************************************************************************)
(* State                                                                   *)
(***************************************************************************)
VARIABLES
    cfg,             \* the Crawler: CrawlConfig fields, allow_localhost, and the site and start URL of this run
    cpc,             \* position of Crawler::crawl
    queue,           \* Vec<(Url, u32)>
    batch,           \* the batch being dispatched
    handles,         \* the spawned worker tasks of the current batch, in spawn order
    visited,         \* HashSet<String> of normalized URLs
    fetched_pages,   \* Vec<FetchedPage>
    errors,          \* Vec<(String, String)>
    pages_skipped,
    permits,         \* free permits of the semaphore
    primary_adapter,
    crawl_ret,       \* what crawl returned
    crawl_job_id,    \* id of this run's crawl_jobs row
    netlog,          \* every HTTP request started, in order
    faults,          \* failures injected so far
    failures,        \* per-page failures that have happened in this crawl
    next_id,         \* source of fresh UUIDs
    store,           \* the Store: pages, links, crawl_jobs, enrichment_cache
    ppc,             \* position of the add_kb / update_kb pipeline ("idle": none running)
    pcfg,            \* the pipeline's configuration
    pl,              \* the pipeline's locals
    disk,            \* the KB directory: manifest.json, toc.json, docs/, artifacts/
    clock,           \* Utc::now()
    pret,            \* what the pipeline returned
    epc,             \* position of run_enrichment ("idle": not called)
    ecfg,            \* run_enrichment's arguments: config, pages, toc
    el,              \* run_enrichment's locals: phase, index, results
    bridge,          \* the BridgeHandle and its pipes: request_counter, the requests written, the lines read
    hitlog,          \* the last task answered from the cache: the text used and the request not sent
    eret             \* what run_enrichment returned

crawlVars == <<cfg, cpc, queue, batch, handles, visited, fetched_pages, errors,
               pages_skipped, permits, primary_adapter, crawl_ret, crawl_job_id>>
envVars == <<netlog, faults, failures, next_id>>
pipeVars == <<ppc, pcfg, pl, disk, clock, pret>>
\* what the crawler never touches
enrVars == <<epc, ecfg, el, bridge, hitlog, eret>>

nonCrawlVars == <<pipeVars, enrVars>>

NoRet == [kind |-> "none"]

\* a database after the migration: the five tables, and whether the
\* connection enforces foreign keys. No statement of the program sets
\* PRAGMA foreign_keys, so that is whatever the SQLite build defaults to.
EmptyStore ==
    [kb |-> {}, pages |-> {}, links |-> {}, crawl_jobs |-> {}, enrichment_cache |-> {},
     foreign_keys |-> FALSE]

\* the same database under each default a build can have
StoreBuilds(st) == {[st EXCEPT !.foreign_keys = b] : b \in BOOLEAN}

(***************************************************************************)
(* Store operations                                                        *)
(***************************************************************************)
\* Storage::get_page: the rows with this (kb_id, path)
get_page(st, kb_id, path) == {r \in st.pages : r.kb_id = kb_id /\ r.path = path}

\* the columns of DO UPDATE SET .. = excluded..
UpsertColumns == {"url", "title", "content_hash", "fetched_at", "status_code", "content_len"}

\* mutant: INSERT OR REPLACE, the conflicting row is deleted and the new one
\* inserted under its own id
upsert_page_replace(st, meta) ==
    [st EXCEPT !.pages = (@ \ get_page(st, meta.kb_id, meta.path)) \cup {meta}]

\* Storage::upsert_page: INSERT ... ON CONFLICT(kb_id, path) DO UPDATE SET
\* the six columns from the new values: the conflicting row keeps its id
upsert_page(st, meta) ==
    LET old == get_page(st, meta.kb_id, meta.path) IN
    IF old = {} THEN [st EXCEPT !.pages = @ \cup {meta}]
    ELSE [st EXCEPT !.pages = (@ \ old) \cup
             {[col \in DOMAIN r |->
                  IF col \in UpsertColumns /\ col \in DOMAIN meta THEN meta[col] ELSE r[col]]
              : r \in old}]

RECURSIVE SeqToSet(_)
SeqToSet(s) == IF s = <<>> THEN {} ELSE {Head(s)} \cup SeqToSet(Tail(s))

\* Storage::insert_link, once per link of a page, each result discarded:
\* links.from_page_id REFERENCES pages(id), so with foreign keys enforced
\* the INSERT fails when no pages row has this id
insert_links(st, from_page_id, links) ==
    IF st.foreign_keys /\ \A r \in st.pages : r.id # from_page_id THEN st
    ELSE [st EXCEPT !.links = @ \cup {[from_page_id |-> from_page_id, to_url |-> l] : l \in SeqToSet(links)}]

\* Storage::insert_kb
insert_kb(st, id, name, source_url, now) ==
    [st EXCEPT !.kb = @ \cup {[id |-> id, name |-> name, source_url |-> source_url,
                               created_at |-> now, updated_at |-> now]}]

\* Storage::insert_crawl_job
insert_crawl_job(st, id, kb_id) ==
    [st EXCEPT !.crawl_jobs = @ \cup {[id |-> id, kb_id |-> kb_id, finished |-> FALSE, stats |-> NoRet]}]

\* Storage::update_crawl_job
update_crawl_job(st, id, stats) ==
    [st EXCEPT !.crawl_jobs = {IF j.id = id THEN [j EXCEPT !.finished = TRUE, !.stats = stats] ELSE j : j \in @}]

(***************************************************************************)
(* Crawler::crawl                                                          *)
(***************************************************************************)
vars == <<cfg, cpc, queue, batch, handles, visited, fetched_pages, errors,
          pages_skipped, permits, primary_adapter, crawl_ret, crawl_job_id,
          netlog, faults, failures, next_id, store,
          ppc, pcfg, pl, disk, clock, pret,
          epc, ecfg, el, bridge, hitlog, eret>>

\* mutant: one more task than configured
Concurrency_plus_one(c) == c.concurrency + 1

\* self.config.concurrency as usize
Concurrency(c) == c.concurrency

QItem(url, depth) == [url |-> url, depth |-> depth]

\* the state of crawl's locals after `let mut queue = vec![(start_url, 0)]`
CrawlLocals(c) ==
    /\ queue = <<QItem(c.start_url, 0)>>
    /\ batch = <<>>
    /\ handles = <<>>
    /\ visited = {}
    /\ fetched_pages = <<>>
    /\ errors = <<>>
    /\ pages_skipped = 0
    /\ permits = Concurrency(c)
    /\ primary_adapter = "generic"
    /\ crawl_ret = NoRet
    /\ crawl_job_id = 0

\* storage.insert_crawl_job(kb_id).await? : the only `?` of crawl
CrawlBegin ==
    /\ cpc = "start"
    /\ \/ /\ store' = insert_crawl_job(store, next_id, KbId)
          /\ crawl_job_id' = next_id
          /\ next_id' = next_id + 1
          /\ cpc' = "loop"
          /\ UNCHANGED <<crawl_ret, faults>>
       \/ /\ faults < MaxFaults
          /\ faults' = faults + 1
          /\ cpc' = "failed"
          /\ crawl_ret' = [kind |-> "Err", error |-> "Storage"]
          /\ UNCHANGED <<store, next_id, crawl_job_id>>
    /\ UNCHANGED <<cfg, queue, batch, handles, visited, fetched_pages, errors,
                   pages_skipped, permits, primary_adapter, netlog, failures>>
    /\ UNCHANGED nonCrawlVars

\* while !queue.is_empty(): drain up to `concurrency` items from the head
TakeBatch ==
    /\ cpc = "loop"
    /\ queue # <<>>
    /\ LET drain_count == Min2(Len(queue), Concurrency(cfg)) IN
       /\ batch' = SubSeq(queue, 1, drain_count)
       /\ queue' = SubSeq(queue, drain_count + 1, Len(queue))
       /\ cpc' = IF drain_count = 0 THEN "loop" ELSE "dispatch"
    /\ UNCHANGED <<cfg, handles, visited, fetched_pages, errors, pages_skipped,
                   permits, primary_adapter, crawl_ret, crawl_job_id,
                   netlog, faults, failures, next_id, store>>
    /\ UNCHANGED nonCrawlVars

\* the decision taken for one batch item: "dup", "scope", "ssrf" or "spawn"
DispatchVerdict(c, vis, url) ==
    IF normalize_url(url) \in vis THEN "dup"
    ELSE IF ~in_scope(CrawlScope(c.start_url, c), url) THEN "scope"
    ELSE IF ~c.allow_localhost /\ is_ssrf_target(url) THEN "ssrf"
    ELSE "spawn"

\* one iteration of `for (url, depth) in batch`
Dispatch ==
    /\ cpc = "dispatch"
    /\ batch # <<>>
    /\ LET item == Head(batch)
           v    == DispatchVerdict(cfg, visited, item.url)
           hs   == IF v = "spawn"
                   THEN Append(handles, [url |-> item.url, depth |-> item.depth,
                                         st |-> "spawned", res |-> NoRet])
                   ELSE handles
       IN  /\ visited' = visited \cup {normalize_url(item.url)}
           /\ pages_skipped' = IF v = "spawn" THEN pages_skipped ELSE pages_skipped + 1
           /\ handles' = hs
           /\ batch' = Tail(batch)
           /\ cpc' = IF Tail(batch) # <<>> THEN "dispatch"
                     ELSE IF hs = <<>> THEN "loop" ELSE "collect"
    /\ UNCHANGED <<cfg, queue, fetched_pages, errors, permits, primary_adapter,
                   crawl_ret, crawl_job_id, netlog, faults, failures, next_id, store>>
    /\ UNCHANGED nonCrawlVars

\* worker: sem.acquire().await, then the rate-limit sleep
Acquire ==
    \E i \in 1..Len(handles) :
    /\ handles[i].st = "spawned"
    /\ permits > 0
    /\ permits' = permits - 1
    /\ handles' = [handles EXCEPT ![i].st = "permit"]
    /\ UNCHANGED <<cfg, cpc, queue, batch, visited, fetched_pages, errors,
                   pages_skipped, primary_adapter, crawl_ret, crawl_job_id,
                   netlog, faults, failures, next_id, store>>
    /\ UNCHANGED nonCrawlVars

\* worker: fetch_page issues client.get(url).send()
FetchStart ==
    \E i \in 1..Len(handles) :
    /\ handles[i].st = "permit"
    /\ handles' = [handles EXCEPT ![i].st = "fetching"]
    /\ netlog' = Append(netlog, [url |-> handles[i].url, depth |-> handles[i].depth, by |-> "crawl"])
    /\ UNCHANGED <<cfg, cpc, queue, batch, visited, fetched_pages, errors,
                   pages_skipped, permits, primary_adapter, crawl_ret, crawl_job_id,
                   faults, failures, next_id, store>>
    /\ UNCHANGED nonCrawlVars

\* what fetch_page builds from a 2xx response
fetch_page(site, url, id, kb_id) ==
    LET body == BodyOf(site, url) IN
    [meta  |-> [id |-> id, kb_id |-> kb_id, url |-> UrlString(url),
                path |-> url_to_path(url), title |-> site.pages[url.path].title,
                content_hash |-> compute_hash(body)],
     html  |-> body,
     links |-> extract_links(site.pages[url.path].hrefs, url)]

FetchFailures == {"net_err", "http_err", "body_err", "join_err"}

\* worker: the request completes, the task ends and its permit is dropped
FetchDone ==
    \E i \in 1..Len(handles) :
    /\ handles[i].st = "fetching"
    /\ permits' = permits + 1
    /\ LET url == handles[i].url IN
       \/ /\ url.path \in DOMAIN cfg.site.pages
          /\ handles' = [handles EXCEPT ![i].st = "done",
                            ![i].res = [kind |-> "ok",
                                        page |-> fetch_page(cfg.site, url, next_id, KbId)]]
          /\ next_id' = next_id + 1
          /\ UNCHANGED <<faults, failures>>
       \/ /\ url.path \notin DOMAIN cfg.site.pages
          /\ handles' = [handles EXCEPT ![i].st = "done", ![i].res = [kind |-> "http_err"]]
          /\ failures' = failures + 1
          /\ UNCHANGED <<next_id, faults>>
       \/ /\ faults < MaxFaults
          /\ \E k \in FetchFailures :
                handles' = [handles EXCEPT ![i].st = "done", ![i].res = [kind |-> k]]
          /\ faults' = faults + 1
          /\ failures' = failures + 1
          /\ UNCHANGED next_id
    /\ UNCHANGED <<cfg, cpc, queue, batch, visited, fetched_pages, errors,
                   pages_skipped, primary_adapter, crawl_ret, crawl_job_id, netlog, store>>
    /\ UNCHANGED nonCrawlVars

\* the queue entries pushed for a page's links: Url::parse(link) at depth + 1
RECURSIVE ChildItems(_, _)
ChildItems(links, depth) ==
    IF links = <<>> THEN <<>>
    ELSE (IF ParseUrl(Head(links)).ok
          THEN <<QItem(ParseUrl(Head(links)).url, depth + 1)>> ELSE <<>>)
         \o ChildItems(Tail(links), depth)

ErrEntry(url, kind, about) == [url |-> url, kind |-> kind, about |-> about]

\* mutant: the links are pushed at the head of the queue (push_front)
EnqueueChildren_front(q, c, page, depth) ==
    IF depth < c.depth THEN ChildItems(page.links, depth) \o q ELSE q

\* mutant: off by one, links of a page at the depth limit are enqueued
EnqueueChildren_le(q, c, page, depth) ==
    IF depth <= c.depth THEN q \o ChildItems(page.links, depth) ELSE q

\* if depth < self.config.depth { queue.push(..) for each link }
EnqueueChildren(q, c, page, depth) ==
    IF depth < c.depth THEN q \o ChildItems(page.links, depth) ELSE q

\* mutant: the upsert error is swallowed
OnUpsertError_swallow(errs, meta) == errs

\* if let Err(e) = storage.upsert_page(..) { errors.push((url, e.to_string())) }
OnUpsertError(errs, meta) == Append(errs, ErrEntry(meta.url, "upsert", meta.url))

\* Ok(Err(e)) => errors.push(("unknown", ..)); Err(e) => errors.push(("task", ..))
OnFetchError(errs, h) ==
    Append(errs, ErrEntry(IF h.res.kind = "join_err" THEN "task" ELSE "unknown",
                          h.res.kind, UrlString(h.url)))

\* one iteration of `for handle in handles`, on the oldest handle
Collect ==
    /\ cpc = "collect"
    /\ handles # <<>>
    /\ Head(handles).st = "done"
    /\ LET h == Head(handles) IN
       \/ /\ h.res.kind = "ok"
          /\ primary_adapter' = IF fetched_pages = <<>> THEN cfg.site.name ELSE primary_adapter
          /\ queue' = EnqueueChildren(queue, cfg, h.res.page, h.depth)
          /\ \/ /\ store' = insert_links(upsert_page(store, h.res.page.meta),
                                         h.res.page.meta.id, h.res.page.links)
                /\ UNCHANGED <<errors, faults, failures>>
             \/ /\ faults < MaxFaults
                /\ faults' = faults + 1
                /\ failures' = failures + 1
                /\ errors' = OnUpsertError(errors, h.res.page.meta)
                /\ store' = insert_links(store, h.res.page.meta.id, h.res.page.links)
          /\ fetched_pages' = Append(fetched_pages, h.res.page)
          /\ UNCHANGED pages_skipped
       \/ /\ h.res.kind \in FetchFailures
          /\ errors' = OnFetchError(errors, h)
          /\ pages_skipped' = pages_skipped + 1
          /\ UNCHANGED <<primary_adapter, queue, store, fetched_pages, faults, failures>>
    /\ handles' = Tail(handles)
    /\ cpc' = IF Tail(handles) = <<>> THEN "loop" ELSE "collect"
    /\ UNCHANGED <<cfg, batch, visited, permits, crawl_ret, crawl_job_id, netlog, next_id>>
    /\ UNCHANGED nonCrawlVars

CrawlResult ==
    [pages_fetched |-> Len(fetched_pages), pages_skipped |-> pages_skipped,
     errors |-> errors, primary_adapter |-> primary_adapter]

\* the queue is empty: update the crawl job (its error is ignored) and return
Finish ==
    /\ cpc = "loop"
    /\ queue = <<>>
    /\ cpc' = "done"
    /\ store' = update_crawl_job(store, crawl_job_id,
              [status |-> IF errors = <<>> THEN "completed" ELSE "completed_with_errors",
               pages_fetched |-> Len(fetched_pages),
               pages_skipped |-> pages_skipped,
               errors |-> Len(errors)])
    /\ crawl_ret' = [kind |-> "Ok", result |-> CrawlResult, pages |-> fetched_pages]
    /\ UNCHANGED <<cfg, queue, batch, handles, visited, fetched_pages, errors,
                   pages_skipped, permits, primary_adapter, crawl_job_id,
                   netlog, faults, failures, next_id>>
    /\ UNCHANGED nonCrawlVars

(***************************************************************************)
(* Crawl configurations explored                                           *)
(***************************************************************************)
Http(host, port, path) == Url("http", host, port, path, "", "")

DocsRoot == Url("https", "docs.example.com", "", "/", "", "")

\* start URLs whose host is one the SSRF rule names, and two public ones
AddressStarts ==
    {Http(h, ":8080", "/") : h \in
        {"127.0.0.1", "10.0.0.1", "172.16.0.1", "192.168.1.1", "169.254.1.1",
         "255.255.255.255", "0.0.0.0", "100.64.0.1", "192.0.0.5",
         "[::1]", "[::]", "localhost", "printer.local", "db.internal",
         "8.8.8.8", "docs.example.com"}}
    \cup {Url("ftp", "docs.example.com", "", "/", "", "")}

PatternChoices ==
    {[include_patterns |-> {}, exclude_patterns |-> {}],
     [include_patterns |-> {}, exclude_patterns |-> {"/blog/**"}],
     [include_patterns |-> {"/", "/guide*", "/page?"}, exclude_patterns |-> {"/page3"}]}

Config(start, depth, conc, pat, allow, site) ==
    [start_url |-> start, depth |-> depth, concurrency |-> conc,
     include_patterns |-> pat.include_patterns, exclude_patterns |-> pat.exclude_patterns,
     allow_localhost |-> allow, site |-> site]

NoPatterns == [include_patterns |-> {}, exclude_patterns |-> {}]

Configs ==
    {Config(s, 1, 1, NoPatterns, a, Site("chain", 1, ChainPages)) :
        s \in AddressStarts, a \in BOOLEAN}
    \cup
    {Config(s, d, c, p, FALSE, site) :
        s \in {DocsRoot, Url("https", "docs.example.com", "", "/guide/", "", "#intro")},
        d \in 0..MaxDepth, c \in 0..MaxConcurrency, p \in PatternChoices, site \in Sites}

NoFile == [kind |-> "absent"]

EmptyDisk == [manifest |-> NoFile, toc |-> NoFile, docs |-> <<>>, artifacts |-> <<>>]

\* no pipeline is running
PipelineIdle ==
    /\ ppc = "idle"
    /\ pcfg = NoRet
    /\ pl = NoRet
    /\ disk = EmptyDisk
    /\ clock = 1
    /\ pret = NoRet

NoBridge ==
    [state |-> "none", request_counter |-> 0, stdin |-> <<>>, reads |-> 0,
     first |-> "none", last |-> "none", stdin_open |-> FALSE, stdout_open |-> FALSE]

\* run_enrichment has not been called
EnrichIdle ==
    /\ epc = "idle"
    /\ ecfg = NoRet
    /\ el = NoRet
    /\ bridge = NoBridge
    /\ hitlog = <<>>
    /\ eret = NoRet

\* the Store once add_kb has inserted the KB's row: every crawl and every
\* enrichment runs after that, so a kb_id always names a row of kb
KbStore == insert_kb(EmptyStore, KbId, "docs", UrlString(DocsRoot), 1)

\* Crawler::crawl called on a Store without pages
Init ==
    /\ cfg \in Configs
    /\ cpc = "start"
    /\ CrawlLocals(cfg)
    /\ netlog = <<>>
    /\ faults = 0
    /\ failures = 0
    /\ next_id = 1
    /\ store \in StoreBuilds(KbStore)
    /\ PipelineIdle
    /\ EnrichIdle

Next ==
    \/ CrawlBegin \/ TakeBatch \/ Dispatch
    \/ Acquire \/ FetchStart \/ FetchDone
    \/ Collect \/ Finish

Spec == Init /\ [][Next]_vars

\* crawl and its tasks run whenever they can, and every request completes
SpecFair == Spec /\ WF_vars(Next)

(***************************************************************************)
(* Markdown conversion, TOC and assembler                                  *)
(***************************************************************************)
None == [kind |-> "none"]

CURRENT_SCHEMA_VERSION == 1

\* contextbuilder_markdown::convert: frontmatter (source_url, title) + body
convert(html, opts) ==
    [markdown |-> "---\nsource_url: " \o opts.source_url \o "\ntitle: " \o opts.title
                    \o "\n---\n" \o html,
     title    |-> opts.title]

ConvertOptions(meta) == [source_url |-> meta.url, title |-> meta.title]

AssemblePage(path, markdown, title) == [path |-> path, markdown |-> markdown, title |-> title]

\* toc::build_toc with no adapter TOC: one entry per page
build_toc(metas) ==
    [i \in 1..Len(metas) |->
        [title |-> metas[i].title, path |-> metas[i].path, source_url |-> metas[i].url]]

\* build_manifest, `now` being the value Utc::now() returned
build_manifest(config, page_count, now) ==
    [kind |-> "file", schema_version |-> CURRENT_SCHEMA_VERSION,
     id |-> config.kb_id, name |-> config.name, source_url |-> config.source_url,
     tool_version |-> config.tool_version,
     created_at |-> now, updated_at |-> now, page_count |-> page_count,
     artifacts |-> None, enrichment |-> None]

\* write_page, for each page in order: a later page overwrites an earlier
\* one with the same path
RECURSIVE write_pages(_, _)
write_pages(docs, pages) ==
    IF pages = <<>> THEN docs
    ELSE write_pages((Head(pages).path :> Head(pages).markdown) @@ docs, Tail(pages))

AssembleStops == {"create_dirs", "manifest", "toc", "page"}

\* assemble: create_dirs, manifest.json, toc.json, docs/**.md, each with `?`;
\* `stop` names the write that fails ("none": all succeed)
assemble(d, config, pages, toc, now, stop) ==
    LET manifest == build_manifest(config, Len(pages), now)
        d1 == [d  EXCEPT !.manifest = manifest]
        d2 == [d1 EXCEPT !.toc = [kind |-> "file", sections |-> toc]]
        d3 == [d2 EXCEPT !.docs = write_pages(@, pages)]
    IN  CASE stop \in {"create_dirs", "manifest"} -> [ok |-> FALSE, disk |-> d]
          [] stop = "toc"  -> [ok |-> FALSE, disk |-> d1]
          [] stop = "page" -> [ok |-> FALSE, disk |-> d2]
          [] OTHER -> [ok |-> TRUE, disk |-> d3, page_count |-> Len(pages), manifest |-> manifest]

(***************************************************************************)
(* update_kb                                                               *)
(***************************************************************************)
\* every page path of the sites explored, in the order of ORDER BY path
PathsInOrder == <<"blog/post", "guide", "index", "page2", "page3", "page4">>

RECURSIVE RowsByPath(_, _)
RowsByPath(rows, paths) ==
    IF paths = <<>> THEN <<>>
    ELSE LET here == {r \in rows : r.path = Head(paths)} IN
         (IF here = {} THEN <<>> ELSE <<CHOOSE r \in here : TRUE>>)
            \o RowsByPath(rows, Tail(paths))

\* Storage::list_pages_by_kb
list_pages_by_kb(st, kb_id) ==
    RowsByPath({r \in st.pages : r.kb_id = kb_id}, PathsInOrder)

\* Storage::delete_page: DELETE FROM pages WHERE id = ?1; ON DELETE CASCADE
\* removes the page's links when foreign keys are enforced
delete_page(st, page_id) ==
    [st EXCEPT !.pages = {r \in @ : r.id # page_id},
               !.links = IF st.foreign_keys THEN {l \in @ : l.from_page_id # page_id} ELSE @]

\* load_manifest
load_manifest(d) ==
    IF d.manifest.kind = "absent" THEN [kind |-> "Err", error |-> "Io"]
    ELSE IF d.manifest.kind # "file" THEN [kind |-> "Err", error |-> "Validation"]
    ELSE [kind |-> "Ok", manifest |-> d.manifest]

PathsOf(pages) == [i \in 1..Len(pages) |-> pages[i].meta.path]

\* diff_pages
diff_pages(existing, fetched, force) ==
    LET existing_paths == {existing[i].path : i \in 1..Len(existing)}
        old(path) == CHOOSE o \in SeqToSet(existing) : o.path = path
        fetched_paths == {fetched[i].meta.path : i \in 1..Len(fetched)}
        IsUnchanged(p) == /\ p.meta.path \in existing_paths
                          /\ ~force
                          /\ old(p.meta.path).content_hash = p.meta.content_hash
        IsChanged(p) == p.meta.path \in existing_paths /\ ~IsUnchanged(p)
        IsNew(p) == p.meta.path \notin existing_paths
        IsRemoved(o) == o.path \notin fetched_paths
        removed == SelectSeq(existing, IsRemoved)
    IN  [new_pages       |-> PathsOf(SelectSeq(fetched, IsNew)),
         changed_pages   |-> PathsOf(SelectSeq(fetched, IsChanged)),
         unchanged_pages |-> PathsOf(SelectSeq(fetched, IsUnchanged)),
         removed_pages   |-> [i \in 1..Len(removed) |-> removed[i].path]]

\* if config.prune: delete_page(old.id) and remove docs/<path>.md for each
\* removed path (both errors ignored)
RECURSIVE prune_store(_, _, _)
prune_store(st, existing, removed) ==
    IF removed = <<>> THEN st
    ELSE LET olds == {o \in SeqToSet(existing) : o.path = Head(removed)} IN
         prune_store(IF olds = {} THEN st ELSE delete_page(st, (CHOOSE o \in olds : TRUE).id),
                     existing, Tail(removed))

prune_docs(docs, removed) ==
    [p \in (DOMAIN docs) \ SeqToSet(removed) |-> docs[p]]

\* the pages whose conversion update_kb attempts
ConvertAttempted(fetched, needs_convert, force, docs) ==
    {i \in 1..Len(fetched) :
        \/ fetched[i].meta.path \in needs_convert
        \/ force
        \/ fetched[i].meta.path \notin DOMAIN docs}

\* the conversion loop of update_kb; `failing` are the pages whose
\* conversion returns Err
RECURSIVE convert_pages(_, _, _, _, _, _)
convert_pages(fetched, i, needs_convert, force, docs, failing) ==
    IF i > Len(fetched) THEN <<>>
    ELSE LET page == fetched[i]
             result == convert(page.html, ConvertOptions(page.meta))
             converted == IF i \in failing THEN <<>>
                          ELSE <<AssemblePage(page.meta.path, result.markdown, result.title)>>
             item == IF page.meta.path \in needs_convert \/ force THEN converted
                     ELSE IF page.meta.path \in DOMAIN docs
                          THEN <<AssemblePage(page.meta.path, docs[page.meta.path], page.meta.title)>>
                     ELSE converted
         IN item \o convert_pages(fetched, i + 1, needs_convert, force, docs, failing)

\* for page in &fetched_pages { if needs_convert.contains(path) { upsert_page } }
RECURSIVE upsert_converted(_, _, _)
upsert_converted(st, fetched, needs_convert) ==
    IF fetched = <<>> THEN st
    ELSE upsert_converted(IF Head(fetched).meta.path \in needs_convert
                          THEN upsert_page(st, Head(fetched).meta) ELSE st,
                          Tail(fetched), needs_convert)

PipeErr(e) == [kind |-> "Err", error |-> e]

\* update_kb up to the call of crawl: load_manifest, Url::parse,
\* Storage::open, list_pages_by_kb
UpdLoad ==
    /\ ppc = "upd_load"
    /\ LET m == load_manifest(disk)
           u == IF m.kind = "Ok" THEN ParseUrl(m.manifest.source_url) ELSE [ok |-> FALSE]
       IN
       IF m.kind = "Err"
       THEN /\ pret' = m /\ ppc' = "done"
            /\ UNCHANGED <<pl, cfg, queue, cpc, faults>>
       ELSE IF ~u.ok
       THEN /\ pret' = PipeErr("Validation") /\ ppc' = "done"
            /\ UNCHANGED <<pl, cfg, queue, cpc, faults>>
       ELSE \/ /\ pl' = [manifest |-> m.manifest,
                         existing_pages |-> list_pages_by_kb(store, m.manifest.id)]
               /\ cfg' = [cfg EXCEPT !.start_url = u.url]
               /\ queue' = <<QItem(u.url, 0)>>
               /\ cpc' = "start"
               /\ ppc' = "upd_crawl"
               /\ UNCHANGED <<pret, faults>>
            \/ /\ faults < MaxFaults
               /\ faults' = faults + 1
               /\ pret' = PipeErr("Storage") /\ ppc' = "done"
               /\ UNCHANGED <<pl, cfg, queue, cpc>>
    /\ UNCHANGED <<batch, handles, visited, fetched_pages, errors, pages_skipped,
                   permits, primary_adapter, crawl_ret, crawl_job_id,
                   netlog, failures, next_id, store, pcfg, disk, clock>>
    /\ UNCHANGED enrVars

\* update_kb from the return of crawl to the call of assemble: the empty
\* check, diff_pages, pruning, conversion, the upsert loop and build_toc.
\* kept_rows and kept_files are the removed paths whose delete_page and
\* remove_file return an error, which `let _ =` discards.
UpdDiff ==
    /\ ppc = "upd_crawl"
    /\ cpc \in {"done", "failed"}
    /\ IF crawl_ret.kind = "Err"
       THEN /\ pret' = crawl_ret /\ ppc' = "done"
            /\ UNCHANGED <<pl, store, disk, faults>>
       ELSE IF crawl_ret.pages = <<>>
       THEN /\ pret' = PipeErr("Validation") /\ ppc' = "done"
            /\ UNCHANGED <<pl, store, disk, faults>>
       ELSE LET fetched == crawl_ret.pages
                diff == diff_pages(pl.existing_pages, fetched, pcfg.force)
                needs_convert == SeqToSet(diff.new_pages) \cup SeqToSet(diff.changed_pages)
                removed == IF pcfg.prune THEN SeqToSet(diff.removed_pages) ELSE {}
            IN \E kept_rows \in SUBSET removed, kept_files \in SUBSET (removed \cap DOMAIN disk.docs) :
               LET st1 == prune_store(store, pl.existing_pages,
                                      SelectSeq(diff.removed_pages,
                                                LAMBDA q : q \in removed \ kept_rows))
                   docs1 == prune_docs(disk.docs,
                                       SelectSeq(diff.removed_pages,
                                                 LAMBDA q : q \in removed \ kept_files))
               IN
               \E failing \in SUBSET ConvertAttempted(fetched, needs_convert, pcfg.force, docs1) :
               /\ faults + Cardinality(failing) + Cardinality(kept_rows)
                     + Cardinality(kept_files) <= MaxFaults
               /\ faults' = faults + Cardinality(failing) + Cardinality(kept_rows)
                                + Cardinality(kept_files)
               /\ store' = upsert_converted(st1, fetched, needs_convert)
               /\ disk' = [disk EXCEPT !.docs = docs1]
               /\ pl' = [manifest |-> pl.manifest, existing_pages |-> pl.existing_pages,
                         diff |-> diff,
                         assembled_pages |-> convert_pages(fetched, 1, needs_convert,
                                                           pcfg.force, docs1, failing),
                         toc |-> build_toc([i \in 1..Len(fetched) |-> fetched[i].meta])]
               /\ ppc' = "upd_assemble"
               /\ UNCHANGED pret
    /\ UNCHANGED <<cfg, cpc, queue, batch, handles, visited, fetched_pages, errors,
                   pages_skipped, permits, primary_adapter, crawl_ret, crawl_job_id,
                   netlog, failures, next_id, pcfg, clock>>
    /\ UNCHANGED enrVars

UpdateKbResult(p, c) ==
    [kb_id |-> p.manifest.id,
     pages_added |-> Len(p.diff.new_pages),
     pages_removed |-> IF c.prune THEN Len(p.diff.removed_pages) ELSE 0,
     pages_changed |-> Len(p.diff.changed_pages),
     pages_unchanged |-> Len(p.diff.unchanged_pages),
     page_count |-> Len(p.assembled_pages)]

\* update_kb: assemble(..)? and the result
UpdAssemble ==
    /\ ppc = "upd_assemble"
    /\ \E stop \in AssembleStops \cup {"none"} :
       /\ stop # "none" => faults < MaxFaults
       /\ faults' = IF stop = "none" THEN faults ELSE faults + 1
       /\ LET a == assemble(disk,
                            [kb_id |-> pl.manifest.id, name |-> pl.manifest.name,
                             source_url |-> pl.manifest.source_url,
                             tool_version |-> pcfg.tool_version],
                            pl.assembled_pages, pl.toc, clock, stop)
          IN /\ disk' = a.disk
             /\ pret' = IF a.ok THEN [kind |-> "Ok", result |-> UpdateKbResult(pl, pcfg)]
                        ELSE PipeErr("Io")
       /\ clock' = clock + 1
       /\ ppc' = "done"
    /\ UNCHANGED <<cfg, cpc, queue, batch, handles, visited, fetched_pages, errors,
                   pages_skipped, permits, primary_adapter, crawl_ret, crawl_job_id,
                   netlog, failures, next_id, store, pcfg, pl>>
    /\ UNCHANGED enrVars

(***************************************************************************)
(* The knowledge bases and sites update_kb is run on                       *)
(***************************************************************************)
Docs(path) == Url("https", "docs.example.com", "", path, "", "")

OldSite == Site("chain", 1, ChainPages)

\* the pages a first crawl of the chain fetched
OldFetched ==
    [i \in 1..3 |-> fetch_page(OldSite, Docs(<<"/", "/page2", "/page3">>[i]), 100 + i, KbId)]

\* the insert_link loop of the first crawl, page by page
RECURSIVE insert_page_links(_, _)
insert_page_links(st, fetched) ==
    IF fetched = <<>> THEN st
    ELSE insert_page_links(insert_links(st, Head(fetched).meta.id, Head(fetched).links), Tail(fetched))

OldStore ==
    insert_page_links(upsert_converted(KbStore, OldFetched, SeqToSet(PathsOf(OldFetched))), OldFetched)

OldDocs ==
    write_pages(<<>>, convert_pages(OldFetched, 1, SeqToSet(PathsOf(OldFetched)), FALSE, <<>>, {}))

\* the manifest add_kb left: written at time 1 and, when artifacts were
\* generated, updated at time 2; a manifest whose source_url is not a URL,
\* one written under another schema version, one that is not a manifest,
\* and none
OldManifests ==
    LET m == build_manifest([kb_id |-> KbId, name |-> "docs",
                             source_url |-> UrlString(DocsRoot), tool_version |-> "0.1.0"], 3, 1)
    IN {m,
        [m EXCEPT !.updated_at = 2, !.artifacts = [kind |-> "some"], !.enrichment = [kind |-> "some"]],
        [m EXCEPT !.source_url = "docs"],
        [m EXCEPT !.schema_version = CURRENT_SCHEMA_VERSION + 1],
        [kind |-> "garbage"],
        NoFile}

OldDisks ==
    {[manifest |-> m, toc |-> [kind |-> "file", sections |-> build_toc([i \in 1..3 |-> OldFetched[i].meta])],
      docs |-> d, artifacts |-> <<>>] :
        m \in OldManifests, d \in {OldDocs, prune_docs(OldDocs, <<"page2">>)}}

\* / -> /page2 -> /page4: page3 is gone, page4 is new, page2 has changed
MovedPages ==
    [p \in {"/", "/page2", "/page4"} |->
        CASE p = "/"      -> Page(<<"/page2">>, "Root")
          [] p = "/page2" -> Page(<<"/page4">>, "Page 2")
          [] OTHER        -> Page(<<>>, "Page 4")]

\* the chain with /page2 also linking to /index.html, the root's twin
TwinPages ==
    [p \in {"/", "/index.html", "/page2", "/page3"} |->
        CASE p = "/"           -> Page(<<"/page2">>, "Root")
          [] p = "/index.html" -> Page(<<>>, "Root")
          [] p = "/page2"      -> Page(<<"/page3", "/index.html">>, "Page 2")
          [] OTHER             -> Page(<<>>, "Page 3")]

UpdateSites ==
    {OldSite, Site("chain", 2, ChainPages), Site("moved", 1, MovedPages), Site("gone", 1, <<>>),
     Site("chain", 1, TwinPages)}

UpdateConfigs ==
    [prune : BOOLEAN, force : BOOLEAN, tool_version : {"0.2.0"}]

\* update_kb called on a KB that an earlier add_kb built
InitUpdate ==
    /\ cfg \in {Config(DocsRoot, MaxDepth, c, NoPatterns, FALSE, site) :
                    c \in {1, MaxConcurrency}, site \in UpdateSites}
    /\ cpc = "idle"
    /\ CrawlLocals(cfg)
    /\ netlog = <<>>
    /\ faults = 0
    /\ failures = 0
    /\ next_id = 1
    /\ store \in StoreBuilds(OldStore)
    /\ ppc = "upd_load"
    /\ pcfg \in UpdateConfigs
    /\ pl = NoRet
    /\ disk \in OldDisks
    /\ clock = 3
    /\ pret = NoRet
    /\ EnrichIdle

NextUpdate ==
    \/ UpdLoad \/ UpdDiff \/ UpdAssemble
    \/ CrawlBegin \/ TakeBatch \/ Dispatch
    \/ Acquire \/ FetchStart \/ FetchDone
    \/ Collect \/ Finish

SpecUpdate == InitUpdate /\ [][NextUpdate]_vars

(***************************************************************************)
(* Enrichment: cache and bridge                                            *)
(***************************************************************************)
\* Option<T>: None is <<>>, Some(x) is <<x>>
Nothing == <<>>

Some(x) == <<x>>

JsonStr(x) == "\"" \o x \o "\""

JsonOpt(o) == IF o = Nothing THEN "null" ELSE JsonStr(o[1])

prompt_hash_of_content(content, task_type) == <<"sha256", content>>

\* prompt_hash: SHA-256 over content followed by task_type
prompt_hash(content, task_type) == <<"sha256", content \o task_type>>

\* truncate_content
truncate_content(content, max_chars) ==
    IF Len(content) <= max_chars THEN content
    ELSE SubSeq(content, 1, max_chars) \o "\n\n[... content truncated for LLM context window ...]"

\* Storage::get_enrichment_cache
get_enrichment_cache(st, kb_id, artifact_type, hash, model_id) ==
    LET rows == {r \in st.enrichment_cache :
                    /\ r.kb_id = kb_id /\ r.artifact_type = artifact_type
                    /\ r.prompt_hash = hash /\ r.model_id = model_id}
    IN IF rows = {} THEN Nothing ELSE Some((CHOOSE r \in rows : TRUE).result_json)

\* Storage::set_enrichment_cache: INSERT ... ON CONFLICT(kb_id, artifact_type,
\* prompt_hash, model_id) DO UPDATE SET result_json
set_enrichment_cache(st, kb_id, artifact_type, hash, model_id, result_json) ==
    [st EXCEPT !.enrichment_cache =
        {r \in @ : ~(/\ r.kb_id = kb_id /\ r.artifact_type = artifact_type
                     /\ r.prompt_hash = hash /\ r.model_id = model_id)}
        \cup {[kb_id |-> kb_id, artifact_type |-> artifact_type, prompt_hash |-> hash,
               model_id |-> model_id, result_json |-> result_json]}]

EnrichmentTask(task_type, content, title, source_url, toc_json, summaries_json, pages_json, c) ==
    [task_type |-> task_type, content |-> content, title |-> title, source_url |-> source_url,
     toc_json |-> toc_json, summaries_json |-> summaries_json, pages_json |-> pages_json,
     kb_name |-> Some(c.kb_name), kb_source_url |-> Some(c.kb_source_url)]

\* serde_json::to_string(&request.task)
TaskJson(t) ==
    "{\"task_type\":" \o JsonStr(t.task_type)
        \o ",\"content\":" \o JsonOpt(t.content)
        \o ",\"title\":" \o JsonOpt(t.title)
        \o ",\"source_url\":" \o JsonOpt(t.source_url)
        \o ",\"toc_json\":" \o JsonOpt(t.toc_json)
        \o ",\"summaries_json\":" \o JsonOpt(t.summaries_json)
        \o ",\"pages_json\":" \o JsonOpt(t.pages_json)
        \o ",\"kb_name\":" \o JsonOpt(t.kb_name)
        \o ",\"kb_source_url\":" \o JsonOpt(t.kb_source_url) \o "}"

\* the bridge's answer to a task: a deterministic function of the request
\* that tells any two requests apart
BridgeAnswer(task) ==
    [text |-> "LLM(" \o TaskJson(task) \o ")", tokens_in |-> 1, tokens_out |-> 1]

RECURSIVE JoinJson(_)
JoinJson(items) ==
    IF items = <<>> THEN ""
    ELSE IF Len(items) = 1 THEN Head(items)
    ELSE Head(items) \o "," \o JoinJson(Tail(items))

\* serde_json::to_string(toc)
toc_json_of(toc) ==
    "{\"sections\":[" \o JoinJson([i \in 1..Len(toc) |->
        "{\"title\":" \o JsonStr(toc[i].title) \o ",\"path\":" \o JsonStr(toc[i].path)
            \o ",\"source_url\":" \o JsonStr(toc[i].source_url) \o "}"]) \o "]}"

\* pages_for_context serialized: path, title and the content cut at 4000
pages_json_of(pages) ==
    "[" \o JoinJson([i \in 1..Len(pages) |->
        "{\"content\":" \o JsonStr(truncate_content(pages[i].content, 4000))
            \o ",\"path\":" \o JsonStr(pages[i].meta.path)
            \o ",\"title\":" \o JsonStr(pages[i].meta.title) \o "}"]) \o "]"

\* serde_json::to_string(&results.summaries): the entries of the HashMap in
\* its iteration order, which is not fixed
summaries_jsons(summaries) ==
    LET n == Cardinality(DOMAIN summaries)
        orders == {o \in [1..n -> DOMAIN summaries] : \A i, j \in 1..n : o[i] = o[j] => i = j}
    IN {"{" \o JoinJson([i \in 1..n |-> JsonStr(o[i]) \o ":" \o JsonStr(summaries[o[i]])]) \o "}" :
            o \in orders}

EmptyResults(model_id) ==
    [model |-> model_id, summaries |-> <<>>, descriptions |-> <<>>,
     skill_md |-> Nothing, rules |-> Nothing, style |-> Nothing, do_dont |-> Nothing,
     total_tokens_in |-> 0, total_tokens_out |-> 0, cache_hits |-> 0, cache_misses |-> 0]

\* kb_id = pages.first().map(|(m, _)| m.kb_id).unwrap_or("unknown")
EnrichKbId(pages) == IF pages = <<>> THEN "unknown" ELSE pages[1].meta.kb_id

PageTaskType(phase) == IF phase = 1 THEN "summarize_page" ELSE "generate_description"

PageTaskLimit(phase) == IF phase = 1 THEN 12000 ELSE 8000

KbTasks == <<"generate_skill_md", "generate_rules", "generate_style", "generate_do_dont">>

\* results.summaries.insert / results.descriptions.insert
InsertPageResult(results, phase, path, text) ==
    IF phase = 1 THEN [results EXCEPT !.summaries = (path :> text) @@ @]
    ELSE [results EXCEPT !.descriptions = (path :> text) @@ @]

\* set_kb_artifact
set_kb_artifact(results, task_type, text) ==
    CASE task_type = "generate_skill_md" -> [results EXCEPT !.skill_md = Some(text)]
      [] task_type = "generate_rules"    -> [results EXCEPT !.rules = Some(text)]
      [] task_type = "generate_style"    -> [results EXCEPT !.style = Some(text)]
      [] task_type = "generate_do_dont"  -> [results EXCEPT !.do_dont = Some(text)]
      [] OTHER -> results

CountHit(results) == [results EXCEPT !.cache_hits = @ + 1]

\* mutant: the miss is not counted
CountMiss_tokens_only(results, r) ==
    [results EXCEPT !.total_tokens_in = @ + r.tokens_in, !.total_tokens_out = @ + r.tokens_out]

CountMiss(results, r) ==
    [results EXCEPT !.cache_misses = @ + 1,
                    !.total_tokens_in = @ + r.tokens_in, !.total_tokens_out = @ + r.tokens_out]

\* the locals after one per-page task: next page, next phase, or phase 3
\* with summaries_json serialized
AfterPageTask(e, results, npages) ==
    IF e.i < npages THEN {[e EXCEPT !.i = @ + 1, !.results = results]}
    ELSE IF e.phase = 1 THEN {[e EXCEPT !.phase = 2, !.i = 1, !.results = results]}
    ELSE {[e EXCEPT !.phase = 3, !.i = 1, !.results = results, !.summaries_json = sj] :
            sj \in summaries_jsons(results.summaries)}

EnrichStart(pages, model_id) ==
    IF pages = <<>>
    THEN [phase |-> 3, i |-> 1, results |-> EmptyResults(model_id), summaries_json |-> "{}"]
    ELSE [phase |-> 1, i |-> 1, results |-> EmptyResults(model_id), summaries_json |-> ""]

(***************************************************************************)
(* run_enrichment                                                          *)
(***************************************************************************)
MaxRuns == 2

EnrErr(e) == [kind |-> "Err", error |-> e]

\* what read_line can give: a ready, result or error frame, a line that is
\* not a frame, EOF, or an I/O error
Lines == {"ready", "result", "error", "garbage", "eof", "read_error"}

\* what read_line can give after a request: those, or a result frame whose id
\* is not the id of the request written last
ResponseLines == Lines \cup {"result_other"}

\* the id of the frame read
FrameId(line, request) == IF line = "result_other" THEN "req-0" ELSE request.id

\* the result a frame with another id carries: the answer to another request
OtherAnswer == [text |-> "LLM(another request)", tokens_in |-> 1, tokens_out |-> 1]

\* debug_assert_eq!(resp_id, id): compiled out unless debug assertions are
\* on, a panic on unequal ids when they are
debug_assert_eq(resp_id, id) == IF resp_id = id THEN {"pass"} ELSE {"pass", "panic"}

\* a spawned child with both pipes captured and the first line read
Spawned(line) ==
    [state |-> "spawned", request_counter |-> 0, stdin |-> <<>>, reads |-> 0,
     first |-> line, last |-> "none", stdin_open |-> TRUE, stdout_open |-> line # "eof"]

\* the ready check accepts any frame that parses
wait_for_ready_any_frame(line) == line \in {"ready", "result", "error"}

\* BridgeHandle::wait_for_ready: Ok exactly for a ready frame
wait_for_ready(line) == line = "ready"

\* the id is formatted from the counter before its increment
Request_from_zero(n, task) ==
    [type |-> "enrich", id |-> "req-" \o ToString(n - 1), task |-> task]

\* RequestMessage::Enrich { id, task }
Request(n, task) == [type |-> "enrich", id |-> "req-" \o ToString(n), task |-> task]

\* a ready frame in place of a response is taken for an empty result
send_task_ready_ok(line, request) ==
    CASE line = "result" -> [ok |-> TRUE, result |-> BridgeAnswer(request.task)]
      [] line = "result_other" -> [ok |-> TRUE, result |-> OtherAnswer]
      [] line = "ready"  -> [ok |-> TRUE, result |-> [text |-> "", tokens_in |-> 0, tokens_out |-> 0]]
      [] OTHER           -> [ok |-> FALSE]

\* BridgeHandle::send_task after the request is written: what the line read
\* from stdout makes it return
send_task(line, request) ==
    IF line = "result" THEN [ok |-> TRUE, result |-> BridgeAnswer(request.task)]
    ELSE IF line = "result_other" THEN [ok |-> TRUE, result |-> OtherAnswer]
    ELSE [ok |-> FALSE]

\* the task of the current iteration, its cache key and the result's slot
CurTaskType(e) == IF e.phase = 3 THEN KbTasks[e.i] ELSE PageTaskType(e.phase)

CurHash(e, c) ==
    IF e.phase = 3 THEN prompt_hash(e.summaries_json, KbTasks[e.i])
    ELSE prompt_hash(c.pages[e.i].content, PageTaskType(e.phase))

CurTask(e, c) ==
    IF e.phase = 3
    THEN EnrichmentTask(KbTasks[e.i], Nothing, Nothing, Nothing,
             Some(toc_json_of(c.toc)), Some(e.summaries_json), Some(pages_json_of(c.pages)), c)
    ELSE EnrichmentTask(PageTaskType(e.phase),
             Some(truncate_content(c.pages[e.i].content, PageTaskLimit(e.phase))),
             Some(c.pages[e.i].meta.title), Some(c.pages[e.i].meta.url),
             Nothing, Nothing, Nothing, c)

Record(e, c, results, text) ==
    IF e.phase = 3 THEN set_kb_artifact(results, KbTasks[e.i], text)
    ELSE InsertPageResult(results, e.phase, c.pages[e.i].meta.path, text)

\* the next iteration of the loops, or the shutdown after the last
Advance(results) ==
    IF el.phase = 3
    THEN /\ el' = [el EXCEPT !.i = @ + 1, !.results = results]
         /\ epc' = IF el.i = Len(KbTasks) THEN "shutdown" ELSE "kb"
    ELSE /\ el' \in AfterPageTask(el, results, Len(ecfg.pages))
         /\ epc' = IF el'.phase = 3 THEN "kb" ELSE "pages"

\* BridgeHandle::spawn and wait_for_ready
EnrSpawn ==
    /\ epc = "spawn"
    /\ \/ /\ faults < MaxFaults                 \* Command::spawn fails
          /\ faults' = faults + 1
          /\ bridge' = NoBridge
          /\ eret' = EnrErr("Enrichment")
          /\ epc' = "done"
          /\ UNCHANGED el
       \/ \E line \in Lines :
          /\ line # "ready" => faults < MaxFaults
          /\ faults' = IF line = "ready" THEN faults ELSE faults + 1
          /\ bridge' = Spawned(line)
          /\ IF wait_for_ready(line)
             THEN /\ el' = EnrichStart(ecfg.pages, ecfg.model_id)
                  /\ epc' = IF ecfg.pages = <<>> THEN "kb" ELSE "pages"
                  /\ UNCHANGED eret
             ELSE /\ eret' = EnrErr("Enrichment")
                  /\ epc' = "done"
                  /\ UNCHANGED el
    /\ UNCHANGED <<crawlVars, pipeVars, netlog, failures, next_id, store, ecfg, hitlog>>

\* one iteration of a loop of run_enrichment up to the request written by
\* send_task: the cache lookup, then on a miss request_counter += 1 and the
\* writeln! to the bridge's stdin.  A write to the pipe fails once the bridge
\* has closed its end, and from then on every write fails.
EnrTask ==
    /\ LET task_type == CurTaskType(el)
           kb_id == EnrichKbId(ecfg.pages)
           hash == CurHash(el, ecfg)
           cached == get_enrichment_cache(store, kb_id, task_type, hash, ecfg.model_id)
           task == CurTask(el, ecfg)
           n == bridge.request_counter + 1
       IN
       \/ /\ faults < MaxFaults                 \* get_enrichment_cache(..)? fails
          /\ faults' = faults + 1
          /\ eret' = EnrErr("Storage")
          /\ epc' = "done"
          /\ UNCHANGED <<el, bridge, hitlog>>
       \/ /\ cached # Nothing
          /\ hitlog' = <<[task |-> task, cached |-> cached[1]]>>
          /\ Advance(CountHit(Record(el, ecfg, el.results, cached[1])))
          /\ UNCHANGED <<bridge, faults, eret>>
       \/ /\ cached = Nothing
          /\ bridge.stdin_open
          /\ bridge' = [bridge EXCEPT !.request_counter = n,
                                      !.stdin = Append(@, Request(n, task))]
          /\ epc' = "response"
          /\ UNCHANGED <<el, faults, eret, hitlog>>
       \/ /\ cached = Nothing                   \* the bridge has gone: EPIPE
          /\ bridge.stdin_open => faults < MaxFaults
          /\ faults' = IF bridge.stdin_open THEN faults + 1 ELSE faults
          /\ bridge' = [bridge EXCEPT !.request_counter = n, !.stdin_open = FALSE,
                                      !.stdout_open = FALSE, !.last = "write_error"]
          /\ Advance(el.results)
          /\ UNCHANGED <<eret, hitlog>>
    /\ UNCHANGED <<crawlVars, pipeVars, netlog, failures, next_id, store, ecfg>>

\* phases 1 and 2: `for (meta, content) in pages`
EnrPageTask ==
    /\ epc = "pages"
    /\ EnrTask

\* phase 3: `for (task_type, task_type_str) in &kb_tasks`
EnrKbTask ==
    /\ epc = "kb"
    /\ EnrTask

\* the rest of send_task and the match on its result: read_line, the frame
\* read, then the cache write and the result recorded, or the warning; the
\* panic of the debug assertion unwinds out of run_enrichment
EnrResponse ==
    /\ epc = "response"
    /\ \E line \in ResponseLines :
       /\ ~bridge.stdout_open => line = "eof"
       /\ (line # "result" /\ bridge.stdout_open) => faults < MaxFaults
       /\ LET request == bridge.stdin[Len(bridge.stdin)]
              r == send_task(line, request)
              fault == IF line # "result" /\ bridge.stdout_open THEN 1 ELSE 0
          IN /\ bridge' = [bridge EXCEPT !.reads = @ + 1, !.last = line,
                                         !.stdout_open = @ /\ line # "eof"]
             /\ \E assertion \in debug_assert_eq(FrameId(line, request), request.id) :
                IF assertion = "panic"
                THEN /\ epc' = "panicked"
                     /\ faults' = faults + fault
                     /\ UNCHANGED <<el, store>>
                ELSE
                IF r.ok
                THEN /\ Advance(Record(el, ecfg, CountMiss(el.results, r.result), r.result.text))
                     /\ \/ /\ store' = set_enrichment_cache(store, EnrichKbId(ecfg.pages),
                                           CurTaskType(el), CurHash(el, ecfg),
                                           ecfg.model_id, r.result.text)
                           /\ faults' = faults + fault
                        \/ /\ faults + fault < MaxFaults  \* set_enrichment_cache fails, ignored
                           /\ faults' = faults + fault + 1
                           /\ UNCHANGED store
                ELSE /\ Advance(el.results)
                     /\ faults' = faults + fault
                     /\ UNCHANGED store
    /\ UNCHANGED <<crawlVars, pipeVars, netlog, failures, next_id, ecfg, hitlog, eret>>

\* BridgeHandle::shutdown up to child.wait(): the shutdown frame is written
\* and flushed, the results of both ignored (bridge.stdin lists the enrich
\* requests only)
EnrShutdown ==
    /\ epc = "shutdown"
    /\ bridge' = [bridge EXCEPT !.state = "shutdown"]
    /\ epc' = "wait"
    /\ UNCHANGED <<crawlVars, pipeVars, netlog, faults, failures, next_id, store,
                   ecfg, el, hitlog, eret>>

\* the bridge process exits; whether and when is up to the bridge
BridgeExits ==
    /\ epc = "wait"
    /\ bridge.state = "shutdown"
    /\ bridge' = [bridge EXCEPT !.state = "exited", !.stdin_open = FALSE, !.stdout_open = FALSE]
    /\ UNCHANGED <<crawlVars, pipeVars, netlog, faults, failures, next_id, store,
                   ecfg, el, hitlog, eret, epc>>

\* child.wait() returns once the child has exited; shutdown gives Ok(()) on
\* both arms of its match, and run_enrichment returns Ok(results)
EnrWait ==
    /\ epc = "wait"
    /\ bridge.state = "exited"
    /\ eret' = [kind |-> "Ok", results |-> el.results]
    /\ epc' = "done"
    /\ UNCHANGED <<crawlVars, pipeVars, netlog, faults, failures, next_id, store,
                   ecfg, el, bridge, hitlog>>

(***************************************************************************)
(* run_enrichment called on its own, once or repeatedly on one Store       *)
(***************************************************************************)
EnrichMeta(path, title) ==
    [id |-> path, kb_id |-> KbId, url |-> UrlString(Docs("/" \o path)), path |-> path,
     title |-> title, content_hash |-> compute_hash(title)]

EnrichPage(meta, content) == [meta |-> meta, content |-> content]

\* page lists: two pages with equal content, two with different content, one
\* page under two titles, and no page
EnrichPageLists ==
    {<<EnrichPage(EnrichMeta("a", "A"), "X"), EnrichPage(EnrichMeta("b", "B"), "X")>>,
     <<EnrichPage(EnrichMeta("a", "A"), "X"), EnrichPage(EnrichMeta("b", "B"), "Y")>>,
     <<EnrichPage(EnrichMeta("a", "A"), "X")>>,
     <<EnrichPage(EnrichMeta("a", "A2"), "X")>>,
     <<>>}

EnrichCalls(run) ==
    {[run |-> run, model_id |-> m, kb_name |-> "docs", kb_source_url |-> UrlString(DocsRoot),
      pages |-> ps, toc |-> build_toc([i \in 1..Len(ps) |-> ps[i].meta])] :
        m \in (IF run = 1 THEN {"m1"} ELSE {"m1", "m2"}), ps \in EnrichPageLists}

InitEnrich ==
    /\ cfg = Config(DocsRoot, 0, 1, NoPatterns, FALSE, OldSite)
    /\ cpc = "idle"
    /\ CrawlLocals(cfg)
    /\ netlog = <<>>
    /\ faults = 0
    /\ failures = 0
    /\ next_id = 1
    /\ store = KbStore
    /\ PipelineIdle
    /\ epc = "spawn"
    /\ ecfg \in EnrichCalls(1)
    /\ el = NoRet
    /\ bridge = NoBridge
    /\ hitlog = <<>>
    /\ eret = NoRet

\* the caller runs run_enrichment again on the same Store
EnrAgain ==
    /\ epc = "done"
    /\ ecfg.run < MaxRuns
    /\ ecfg' \in EnrichCalls(ecfg.run + 1)
    /\ epc' = "spawn"
    /\ el' = NoRet
    /\ bridge' = NoBridge
    /\ eret' = NoRet
    /\ UNCHANGED <<crawlVars, pipeVars, netlog, faults, failures, next_id, store, hitlog>>

NextEnrich ==
    \/ EnrSpawn \/ EnrPageTask \/ EnrKbTask \/ EnrResponse
    \/ EnrShutdown \/ BridgeExits \/ EnrWait \/ EnrAgain

SpecEnrich == InitEnrich /\ [][NextEnrich]_vars

\* the steps of run_enrichment are taken when they can be; nothing makes the
\* bridge exit
SpecEnrichFair ==
    SpecEnrich /\ WF_vars(EnrSpawn \/ EnrPageTask \/ EnrKbTask \/ EnrResponse
                             \/ EnrShutdown \/ EnrWait)

(***************************************************************************)
(* add_kb                                                                  *)
(***************************************************************************)
\* origin_url: scheme://host[:port]
origin_url(url) == url.scheme \o "://" \o host_str(url) \o url.port

\* the two URLs discover requests, in the order of the tokio::join!
DiscoveryProbes(url) == <<origin_url(url) \o "/llms.txt", origin_url(url) \o "/llms-full.txt">>

\* char::is_whitespace for the characters that occur
IsSpace(c) == c \in {" ", "\t", "\n", "\r"}

RECURSIVE TrimStart(_)
TrimStart(s) ==
    IF Len(s) > 0 /\ IsSpace(CharAt(s, 1)) THEN TrimStart(SubSeq(s, 2, Len(s))) ELSE s

RECURSIVE TrimEnd(_)
TrimEnd(s) ==
    IF Len(s) > 0 /\ IsSpace(CharAt(s, Len(s))) THEN TrimEnd(SubSeq(s, 1, Len(s) - 1)) ELSE s

Trim(s) == TrimEnd(TrimStart(s))

\* str::find of a one-character pattern at or after from: the position, or
\* Len(s) + 1 when there is none
Find(s, c, from) ==
    LET hits == {i \in from..Len(s) : CharAt(s, i) = c}
    IN IF hits = {} THEN Len(s) + 1 ELSE CHOOSE i \in hits : \A j \in hits : i <= j

\* str::lines: the pieces between "\n", each without a trailing "\r", and no
\* last empty piece
LineStarts(content) ==
    {1} \cup {i + 1 : i \in {j \in 1..Len(content) : CharAt(content, j) = "\n"}}

NthStart(starts, k) == CHOOSE i \in starts : Cardinality({j \in starts : j < i}) = k - 1

LineAt(content, start) == SubSeq(content, start, Find(content, "\n", start) - 1)

Pieces(content, starts) ==
    [k \in 1..Cardinality(starts) |-> LineAt(content, NthStart(starts, k))]

DropLastEmpty(pieces) ==
    IF pieces[Len(pieces)] = "" THEN SubSeq(pieces, 1, Len(pieces) - 1) ELSE pieces

StripCr(line) == IF EndsWith(line, "\r") THEN SubSeq(line, 1, Len(line) - 1) ELSE line

StripCrs(pieces) == [i \in 1..Len(pieces) |-> StripCr(pieces[i])]

StrLines(content) == StripCrs(DropLastEmpty(Pieces(content, LineStarts(content))))

\* H1_RE ^#\s+(.+)$ on a trimmed line: the capture, or Nothing
H1_RE(trimmed) ==
    IF Len(trimmed) >= 3 /\ CharAt(trimmed, 1) = "#" /\ IsSpace(CharAt(trimmed, 2))
    THEN Some(TrimStart(SubSeq(trimmed, 2, Len(trimmed))))
    ELSE Nothing

\* LINK_RE ^[-*]\s+\[([^\]]+)\]\(([^)]+)\)(?::\s*(.+))?$ on a trimmed line,
\* given the positions of its first "[", of the "]" after it and of the ")"
\* after that: the second capture, or Nothing
LinkCapture(trimmed, open, close, paren) ==
    IF /\ Len(trimmed) >= 1 /\ CharAt(trimmed, 1) \in {"-", "*"}
       /\ open >= 3 /\ open <= Len(trimmed)
       /\ \A i \in 2..(open - 1) : IsSpace(CharAt(trimmed, i))
       /\ close > open + 1 /\ close < Len(trimmed)
       /\ CharAt(trimmed, close + 1) = "("
       /\ paren > close + 2 /\ paren <= Len(trimmed)
       /\ \/ paren = Len(trimmed)
          \/ /\ CharAt(trimmed, paren + 1) = ":"
             /\ TrimStart(SubSeq(trimmed, paren + 2, Len(trimmed))) # ""
    THEN Some(SubSeq(trimmed, close + 2, paren - 1))
    ELSE Nothing

LinkParen(trimmed, open, close) ==
    LinkCapture(trimmed, open, close, Find(trimmed, ")", close + 2))

LinkClose(trimmed, open) == LinkParen(trimmed, open, Find(trimmed, "]", open + 1))

LINK_RE(trimmed) == LinkClose(trimmed, Find(trimmed, "[", 1))

EntryUrl(link) == IF link = Nothing THEN <<>> ELSE <<Trim(link[1])>>

\* the url of every link line among lines i.. of a llms.txt
RECURSIVE LinkUrls(_, _)
LinkUrls(lines, i) ==
    IF i > Len(lines) THEN <<>>
    ELSE EntryUrl(LINK_RE(Trim(lines[i]))) \o LinkUrls(lines, i + 1)

\* index of the first line that is not blank, or 0
FirstNonBlank(lines) ==
    IF \A i \in 1..Len(lines) : Trim(lines[i]) = "" THEN 0
    ELSE CHOOSE i \in 1..Len(lines) :
            Trim(lines[i]) # "" /\ \A j \in 1..(i - 1) : Trim(lines[j]) = ""

ParseErr == [kind |-> "Err", error |-> "Parse"]

TitleAndEntries(lines, first, h1) ==
    IF h1 = Nothing THEN ParseErr
    ELSE [kind |-> "Ok", title |-> Trim(h1[1]), entries |-> LinkUrls(lines, first + 1)]

ParseFrom(lines, first) ==
    IF first = 0 THEN ParseErr
    ELSE TitleAndEntries(lines, first, H1_RE(Trim(lines[first])))

ParseLines(lines) == ParseFrom(lines, FirstNonBlank(lines))

\* parse_llms_txt: the title from the first non-blank line, then the entries
parse_llms_txt(content) == ParseLines(StrLines(content))

MAX_RESPONSE_SIZE == 10485760

\* what a GET of <origin>/llms.txt gives: no response, or a response with its
\* status, its body of `size` bytes and, when has_length, a Content-Length
NoResponse == [kind |-> "network_error"]

Response(status, has_length, size, body) ==
    [kind |-> "response", status |-> status, size |-> size,
     content_length |-> IF has_length THEN Some(size) ELSE Nothing, body |-> body]

\* fetch_and_validate
fetch_and_validate(r) ==
    IF r.kind = "network_error" THEN [kind |-> "Err", error |-> "Network"]
    ELSE IF ~(r.status >= 200 /\ r.status <= 299) THEN [kind |-> "Err", error |-> "Network"]
    ELSE IF r.content_length # Nothing /\ r.content_length[1] > MAX_RESPONSE_SIZE
         THEN [kind |-> "Err", error |-> "Validation"]
    ELSE IF ~StartsWith(TrimStart(r.body), "# ") THEN [kind |-> "Err", error |-> "Validation"]
    ELSE [kind |-> "Ok", body |-> r.body]

DiscoveryResult(parsed) ==
    IF parsed.kind = "Err" THEN parsed ELSE [kind |-> "Found", entries |-> parsed.entries]

DiscoverFetched(fetched) ==
    IF fetched.kind = "Err" THEN [kind |-> "NotFound"]
    ELSE DiscoveryResult(parse_llms_txt(fetched.body))

\* discover, for the response to the GET of <origin>/llms.txt
discover(llms) == DiscoverFetched(fetch_and_validate(llms))

\* parsed.entries.iter().filter_map(|e| Url::parse(&e.url).ok())
RECURSIVE ParsedUrls(_)
ParsedUrls(entries) ==
    IF entries = <<>> THEN <<>>
    ELSE (IF ParseUrl(Head(entries)).ok THEN <<ParseUrl(Head(entries)).url>> ELSE <<>>)
            \o ParsedUrls(Tail(entries))

\* what fetch_single_page builds from a 2xx response: no links
fetch_single_page(site, url, id, kb_id) ==
    [fetch_page(site, url, id, kb_id) EXCEPT !.links = <<>>]

\* the conversion loop of add_kb; `failing` are the pages whose conversion
\* returns Err
RECURSIVE convert_all(_, _, _)
convert_all(fetched, i, failing) ==
    IF i > Len(fetched) THEN <<>>
    ELSE (IF i \in failing THEN <<>>
          ELSE LET page == fetched[i]
                   result == convert(page.html, ConvertOptions(page.meta))
               IN <<AssemblePage(page.meta.path, result.markdown, result.title)>>)
            \o convert_all(fetched, i + 1, failing)

\* fetched_pages.iter().zip(assembled_pages.iter())
pages_with_content(fetched, assembled) ==
    [i \in 1..Min2(Len(fetched), Len(assembled)) |->
        [meta |-> fetched[i].meta, content |-> assembled[i].markdown]]

\* the six artifacts add_kb composes, each from the arguments of its generator
Artifacts(c, toc, fetched, assembled, r) ==
    LET summary == IF DOMAIN r.summaries = {} THEN {"Documentation for " \o c.name}
                   ELSE {r.summaries[p] : p \in DOMAIN r.summaries}
        full_pages == [i \in 1..Min2(Len(fetched), Len(assembled)) |->
                          [title |-> assembled[i].title, url |-> fetched[i].meta.url,
                           content |-> assembled[i].markdown]]
    IN {<<[filename |-> "llms.txt", content |-> <<c.name, st, toc, r.descriptions>>],
          [filename |-> "llms-full.txt", content |-> <<c.name, full_pages>>],
          [filename |-> "SKILL.md", content |-> <<c.name, st, r.skill_md>>],
          [filename |-> "rules.md", content |-> <<c.name, r.rules>>],
          [filename |-> "style.md", content |-> <<c.name, r.style>>],
          [filename |-> "do_dont.md", content |-> <<c.name, r.do_dont>>]>> : st \in summary}

\* a file of artifacts/: the content handed to std::fs::write and whether
\* the write got all of it onto the disk
File(content) == [content |-> content, complete |-> TRUE]

PartialFile(content) == [content |-> content, complete |-> FALSE]

\* Sha256::digest(bytes) as hex, and bytes.len(): functions of the bytes
sha256(bytes) == <<"sha256", bytes>>

len(bytes) == <<"len", bytes>>

\* artifacts_dir.join(format!(".{filename}.tmp"))
TempName(filename) == "." \o filename \o ".tmp"

\* file names that begin with '.'
IsDotFile(name) == Len(name) > 0 /\ SubSeq(name, 1, 1) = "."

\* std::fs::write(&temp, content): creates or truncates the temp file and
\* writes the content; create_temp is the file before the last byte is
\* written, write_temp the file after
create_temp(d, a) ==
    [d EXCEPT !.artifacts = (TempName(a.filename) :> PartialFile(a.content)) @@ @]

write_temp(d, a) ==
    [d EXCEPT !.artifacts = (TempName(a.filename) :> File(a.content)) @@ @]

\* std::fs::rename(&temp, &target): the target becomes the temp file in
\* one step and the temp name is gone
rename_temp(d, a) ==
    [d EXCEPT !.artifacts =
        [f \in (DOMAIN @ \ {TempName(a.filename)}) \cup {a.filename} |->
            IF f = a.filename THEN @[TempName(a.filename)] ELSE @[f]]]

ArtifactMeta_of_temp(a) ==
    [filename |-> a.filename, sha256 |-> sha256(PartialFile(a.content)),
     size_bytes |-> len(PartialFile(a.content))]

\* ArtifactMeta { filename, sha256: hex(Sha256::digest(content)), size_bytes: content.len() }
ArtifactMeta(a) ==
    [filename |-> a.filename, sha256 |-> sha256(File(a.content)),
     size_bytes |-> len(File(a.content))]

\* update_manifest: read manifest.json, set artifacts, enrichment and
\* updated_at, write it back
update_manifest(d, metas, enrichment_meta, now) ==
    [d EXCEPT !.manifest.artifacts = [kind |-> "some", value |-> metas],
              !.manifest.enrichment = [kind |-> "some", value |-> enrichment_meta],
              !.manifest.updated_at = now]

\* how a call of assemble_artifacts can end: Ok, or an error of the
\* std::fs::write of a temp file before it created the file or after it
\* wrote a part, of the rename, or of update_manifest's read or write
ArtifactStops == {"create", "write", "rename", "read_manifest", "write_manifest"}

\* the disk a failing step leaves
stop_artifact(d, a, stop) ==
    CASE stop = "write"  -> create_temp(d, a)
      [] stop = "rename" -> write_temp(d, a)
      [] OTHER           -> d

\* the loop of assemble_artifacts over the first `written` artifacts
RECURSIVE write_artifacts(_, _, _)
write_artifacts(d, artifacts, written) ==
    IF written = 0 THEN d
    ELSE LET d1 == write_artifacts(d, artifacts, written - 1)
         IN rename_temp(write_temp(d1, artifacts[written]), artifacts[written])

\* assemble_artifacts: the first `written` artifacts are renamed into
\* place; the next one fails as `stop` says; when all are written,
\* update_manifest rewrites manifest.json, or fails as `stop` says
assemble_artifacts(d, artifacts, enrichment_meta, now, written, stop) ==
    LET d1 == write_artifacts(d, artifacts, written)
        metas == [i \in 1..Len(artifacts) |-> ArtifactMeta(artifacts[i])]
    IN IF written < Len(artifacts)
       THEN [ok |-> FALSE, disk |-> stop_artifact(d1, artifacts[written + 1], stop)]
       ELSE CASE stop = "read_manifest"  -> [ok |-> FALSE, disk |-> d1]
              [] stop = "write_manifest" -> [ok |-> FALSE, disk |-> [d1 EXCEPT !.manifest = [kind |-> "garbage"]]]
              [] OTHER -> [ok |-> TRUE, disk |-> update_manifest(d1, metas, enrichment_meta, now)]

\* crawl_pages: Crawler::new(config.crawl) and crawl(&config.url, ..)
StartCrawl(url) ==
    /\ cfg' = [cfg EXCEPT !.start_url = url]
    /\ queue' = <<QItem(url, 0)>>
    /\ cpc' = "start"

\* add_kb: create the directories, Storage::open, insert_kb, then the mode
AddBegin ==
    /\ ppc = "add_start"
    /\ \/ /\ store' = insert_kb(store, KbId, pcfg.name, UrlString(pcfg.url), clock)
          /\ IF pcfg.mode = "crawl"
             THEN StartCrawl(pcfg.url) /\ ppc' = "add_crawl"
             ELSE ppc' = "add_discover" /\ UNCHANGED <<cfg, queue, cpc>>
          /\ UNCHANGED <<pret, faults>>
       \/ /\ faults < MaxFaults
          /\ faults' = faults + 1
          /\ pret' = PipeErr("Storage")
          /\ ppc' = "done"
          /\ UNCHANGED <<store, cfg, queue, cpc>>
    /\ UNCHANGED <<batch, handles, visited, fetched_pages, errors, pages_skipped,
                   permits, primary_adapter, crawl_ret, crawl_job_id,
                   netlog, failures, next_id, pcfg, pl, disk, clock>>
    /\ UNCHANGED enrVars

\* discover_and_fetch up to the loop over the linked pages
AddDiscover ==
    /\ ppc = "add_discover"
    /\ netlog' = netlog \o [i \in 1..2 |->
                    [url |-> ParseUrl(DiscoveryProbes(pcfg.url)[i]).url, depth |-> 0, by |-> "discover"]]
    /\ LET d == discover(pcfg.llms)
           urls == IF d.kind = "Found" THEN ParsedUrls(d.entries) ELSE <<>>
       IN /\ pl' = [discovery |-> d, urls |-> urls, i |-> 1, pages |-> <<>>]
          /\ ppc' = IF urls = <<>> THEN "add_discovered" ELSE "add_fetch"
    /\ UNCHANGED <<crawlVars, faults, failures, next_id, store, pcfg, disk, clock, pret>>
    /\ UNCHANGED enrVars

\* discover_and_fetch: one iteration of `for (i, page_url) in urls`
AddFetchLinked ==
    /\ ppc = "add_fetch"
    /\ LET url == pl.urls[pl.i]
           page == fetch_single_page(cfg.site, url, next_id, KbId)
           Continue(pages) ==
               /\ pl' = [pl EXCEPT !.i = @ + 1, !.pages = pages]
               /\ ppc' = IF pl.i = Len(pl.urls) THEN "add_discovered" ELSE "add_fetch"
       IN /\ netlog' = Append(netlog, [url |-> url, depth |-> 0, by |-> "llms"])
          /\ \/ /\ url.path \in DOMAIN cfg.site.pages
                /\ \/ store' = upsert_page(store, page.meta) /\ UNCHANGED faults
                   \/ faults < MaxFaults /\ faults' = faults + 1 /\ UNCHANGED store
                /\ next_id' = next_id + 1
                /\ Continue(Append(pl.pages, page))
             \/ /\ url.path \notin DOMAIN cfg.site.pages \/ faults < MaxFaults
                /\ faults' = IF url.path \in DOMAIN cfg.site.pages THEN faults + 1 ELSE faults
                /\ Continue(pl.pages)
                /\ UNCHANGED <<store, next_id>>
    /\ UNCHANGED <<crawlVars, failures, pcfg, disk, clock, pret>>
    /\ UNCHANGED enrVars

\* add_kb after discover_and_fetch returned: mode llms-txt applies `?`,
\* mode auto falls back to the crawl unless pages were fetched
AddAfterDiscovery ==
    /\ ppc = "add_discovered"
    /\ IF pcfg.mode = "llms-txt"
       THEN /\ IF pl.discovery.kind = "Err"
               THEN pret' = PipeErr("Parse") /\ ppc' = "done" /\ UNCHANGED pl
               ELSE /\ pl' = [fetched |-> pl.pages,
                              method |-> IF pl.discovery.kind = "Found" THEN "llms-txt" ELSE "none"]
                    /\ ppc' = "add_convert"
                    /\ UNCHANGED pret
            /\ UNCHANGED <<cfg, queue, cpc>>
       ELSE IF pl.discovery.kind = "Found" /\ pl.pages # <<>>
       THEN /\ pl' = [fetched |-> pl.pages, method |-> "llms-txt"]
            /\ ppc' = "add_convert"
            /\ UNCHANGED <<pret, cfg, queue, cpc>>
       ELSE /\ StartCrawl(pcfg.url)
            /\ ppc' = "add_crawl"
            /\ UNCHANGED <<pret, pl>>
    /\ UNCHANGED <<batch, handles, visited, fetched_pages, errors, pages_skipped,
                   permits, primary_adapter, crawl_ret, crawl_job_id,
                   netlog, faults, failures, next_id, store, pcfg, disk, clock>>
    /\ UNCHANGED enrVars

\* add_kb after crawl_pages returned
AddAfterCrawl ==
    /\ ppc = "add_crawl"
    /\ cpc \in {"done", "failed"}
    /\ IF crawl_ret.kind = "Err"
       THEN pret' = crawl_ret /\ ppc' = "done" /\ UNCHANGED pl
       ELSE /\ pl' = [fetched |-> crawl_ret.pages, method |-> "crawl"]
            /\ ppc' = "add_convert"
            /\ UNCHANGED pret
    /\ UNCHANGED <<crawlVars, envVars, store, pcfg, disk, clock>>
    /\ UNCHANGED enrVars

\* add_kb: the empty check, conversion, build_toc, assemble(..)? and the
\* call of run_enrichment
AddAssemble ==
    /\ ppc = "add_convert"
    /\ IF pl.fetched = <<>>
       THEN /\ pret' = PipeErr("Validation") /\ ppc' = "done"
            /\ UNCHANGED <<pl, disk, clock, faults, epc, ecfg>>
       ELSE \E failing \in SUBSET (1..Len(pl.fetched)), stop \in AssembleStops \cup {"none"} :
            /\ faults + Cardinality(failing) + (IF stop = "none" THEN 0 ELSE 1) <= MaxFaults
            /\ faults' = faults + Cardinality(failing) + (IF stop = "none" THEN 0 ELSE 1)
            /\ LET assembled == convert_all(pl.fetched, 1, failing)
                   toc == build_toc([i \in 1..Len(pl.fetched) |-> pl.fetched[i].meta])
                   a == assemble(disk, [kb_id |-> KbId, name |-> pcfg.name,
                                        source_url |-> UrlString(pcfg.url),
                                        tool_version |-> pcfg.tool_version],
                                 assembled, toc, clock, stop)
               IN /\ disk' = a.disk
                  /\ clock' = clock + 1
                  /\ pl' = [fetched |-> pl.fetched, method |-> pl.method,
                            assembled_pages |-> assembled, toc |-> toc]
                  /\ IF a.ok
                     THEN /\ ecfg' = [run |-> MaxRuns, model_id |-> pcfg.model_id,
                                      kb_name |-> pcfg.name, kb_source_url |-> UrlString(pcfg.url),
                                      pages |-> pages_with_content(pl.fetched, assembled),
                                      toc |-> toc]
                          /\ epc' = "spawn"
                          /\ ppc' = "add_enrich"
                          /\ UNCHANGED pret
                     ELSE /\ pret' = PipeErr("Io") /\ ppc' = "done"
                          /\ UNCHANGED <<epc, ecfg>>
    /\ UNCHANGED <<crawlVars, netlog, failures, next_id, store, pcfg,
                   el, bridge, hitlog, eret>>

\* add_kb after run_enrichment returned: `?`, the artifacts,
\* assemble_artifacts(..)? and the result
AddArtifacts ==
    /\ ppc = "add_enrich"
    /\ epc = "done"
    /\ IF eret.kind = "Err"
       THEN pret' = eret /\ UNCHANGED <<disk, clock, faults>>
       ELSE \E artifacts \in Artifacts(pcfg, pl.toc, pl.fetched, pl.assembled_pages, eret.results),
               written \in 0..6, stop \in ArtifactStops \cup {"none"} :
            /\ written < 6 => stop \in {"create", "write", "rename"}
            /\ written = 6 => stop \in {"none", "read_manifest", "write_manifest"}
            /\ stop # "none" => faults < MaxFaults
            /\ faults' = IF stop # "none" THEN faults + 1 ELSE faults
            /\ LET r == eret.results
                   a == assemble_artifacts(disk, artifacts,
                            [model |-> r.model, total_tokens_in |-> r.total_tokens_in,
                             total_tokens_out |-> r.total_tokens_out,
                             cache_hits |-> r.cache_hits, cache_misses |-> r.cache_misses,
                             completed_at |-> clock],
                            clock + 1, written, stop)
               IN /\ disk' = a.disk
                  /\ pret' = IF a.ok
                             THEN [kind |-> "Ok",
                                   result |-> [kb_id |-> KbId, method |-> pl.method,
                                               page_count |-> Len(pl.assembled_pages)]]
                             ELSE PipeErr("Io")
            /\ clock' = clock + 2
    /\ ppc' = "done"
    /\ UNCHANGED <<crawlVars, netlog, failures, next_id, store, pcfg, pl>>
    /\ UNCHANGED enrVars

(***************************************************************************)
(* The add_kb runs explored                                                *)
(***************************************************************************)
\* what the origin serves at /llms.txt
LlmsFile(entries) ==
    "# Docs\n\n> The documentation\n\n## Pages\n\n- [First](" \o entries[1] \o "): notes\n"
        \o (IF Len(entries) > 1 THEN "* [Second](" \o entries[2] \o ")\n" ELSE "")

LlmsBodies ==
    {LlmsFile(<<"https://docs.example.com/page2", "https://docs.example.com/page3">>),
     LlmsFile(<<"http://192.168.1.1/admin", "https://docs.example.com/page2">>),
     LlmsFile(<<"docs/page2">>),
     LlmsFile(<<"https://docs.example.com/missing">>)}

\* an HTML page, a heading mark without a title, a heading without the
\* space, and no text
BadBodies ==
    {"<html><h1>Not Found</h1></html>",
     "# \n\n- [First](https://docs.example.com/page2)\n",
     "#Docs\n",
     ""}

LlmsChoices ==
    {NoResponse, Response(404, TRUE, 9, "Not Found")}
    \cup {Response(200, TRUE, Len(b), b) : b \in LlmsBodies \cup BadBodies}
    \cup {Response(200, l, MAX_RESPONSE_SIZE + 1,
                    LlmsFile(<<"https://docs.example.com/page2", "https://docs.example.com/page3">>)) :
              l \in BOOLEAN}

AddConfigs ==
    [url : {DocsRoot, Http("127.0.0.1", ":8080", "/")},
     mode : {"auto", "llms-txt", "crawl"},
     llms : LlmsChoices,
     name : {"docs"}, tool_version : {"0.2.0"}, model_id : {"m1"}]

InitAdd ==
    /\ cfg = Config(DocsRoot, 1, 1, NoPatterns, FALSE, OldSite)
    /\ cpc = "idle"
    /\ CrawlLocals(cfg)
    /\ netlog = <<>>
    /\ faults = 0
    /\ failures = 0
    /\ next_id = 1
    /\ store \in StoreBuilds(EmptyStore)
    /\ ppc = "add_start"
    /\ pcfg \in AddConfigs
    /\ pl = NoRet
    /\ disk = EmptyDisk
    /\ clock = 1
    /\ pret = NoRet
    /\ EnrichIdle

NextAdd ==
    \/ AddBegin \/ AddDiscover \/ AddFetchLinked \/ AddAfterDiscovery
    \/ AddAfterCrawl \/ AddAssemble \/ AddArtifacts
    \/ CrawlBegin \/ TakeBatch \/ Dispatch
    \/ Acquire \/ FetchStart \/ FetchDone
    \/ Collect \/ Finish
    \/ EnrSpawn \/ EnrPageTask \/ EnrKbTask \/ EnrResponse
    \/ EnrShutdown \/ BridgeExits \/ EnrWait

SpecAdd == InitAdd /\ [][NextAdd]_vars

(***************************************************************************)
(* assemble_artifacts step by step, and an update_kb run after it          *)
(***************************************************************************)
\* EnrichmentResults of a run that produced nothing and of a run that
\* summarised the root and generated the skill file
ArtifactResults ==
    {EmptyResults("m1"),
     [EmptyResults("m1") EXCEPT !.summaries = ("index" :> "The root"),
                                !.skill_md = Some("skill"),
                                !.total_tokens_in = 10, !.total_tokens_out = 5,
                                !.cache_misses = 2]}

\* the calls add_kb makes for the KB of the chain: the artifact list and
\* the EnrichmentMeta
ArtifactCalls ==
    UNION {{[artifacts |-> a,
             enrichment_meta |-> [model |-> r.model, total_tokens_in |-> r.total_tokens_in,
                                  total_tokens_out |-> r.total_tokens_out,
                                  cache_hits |-> r.cache_hits, cache_misses |-> r.cache_misses,
                                  completed_at |-> 2]] :
              a \in Artifacts([name |-> "docs"], build_toc([i \in 1..3 |-> OldFetched[i].meta]),
                              OldFetched, convert_all(OldFetched, 1, {}), r)} :
           r \in ArtifactResults}

ArtFail ==
    /\ faults < MaxFaults
    /\ faults' = faults + 1
    /\ pret' = PipeErr("Io")
    /\ ppc' = "art_done"

\* std::fs::create_dir_all(&artifacts_dir)?
ArtBegin ==
    /\ ppc = "art_start"
    /\ \/ /\ ppc' = "art_create"
          /\ UNCHANGED <<pret, faults>>
       \/ ArtFail
    /\ UNCHANGED <<crawlVars, netlog, failures, next_id, store, pcfg, pl, disk, clock>>
    /\ UNCHANGED enrVars

\* std::fs::write(&temp, content)?, up to the creation of the temp file
ArtCreateTemp ==
    /\ ppc = "art_create"
    /\ \/ /\ disk' = create_temp(disk, pl.artifacts[pl.i])
          /\ ppc' = "art_write"
          /\ UNCHANGED <<pret, faults>>
       \/ ArtFail /\ UNCHANGED disk
    /\ UNCHANGED <<crawlVars, netlog, failures, next_id, store, pcfg, pl, clock>>
    /\ UNCHANGED enrVars

\* std::fs::write(&temp, content)?, the rest of the content
ArtWriteTemp ==
    /\ ppc = "art_write"
    /\ \/ /\ disk' = write_temp(disk, pl.artifacts[pl.i])
          /\ ppc' = "art_rename"
          /\ UNCHANGED <<pret, faults>>
       \/ ArtFail /\ UNCHANGED disk
    /\ UNCHANGED <<crawlVars, netlog, failures, next_id, store, pcfg, pl, clock>>
    /\ UNCHANGED enrVars

\* std::fs::rename(&temp, &target)?, metas.push(..), the next artifact
ArtRename ==
    /\ ppc = "art_rename"
    /\ \/ /\ disk' = rename_temp(disk, pl.artifacts[pl.i])
          /\ pl' = [pl EXCEPT !.metas = Append(@, ArtifactMeta(pl.artifacts[pl.i])),
                              !.i = @ + 1]
          /\ ppc' = IF pl.i = Len(pl.artifacts) THEN "art_manifest" ELSE "art_create"
          /\ UNCHANGED <<pret, faults>>
       \/ ArtFail /\ UNCHANGED <<disk, pl>>
    /\ UNCHANGED <<crawlVars, netlog, failures, next_id, store, pcfg, clock>>
    /\ UNCHANGED enrVars

\* update_manifest(kb_path, &metas, enrichment_meta)? and Ok(())
ArtManifest ==
    /\ ppc = "art_manifest"
    /\ \/ /\ disk' = update_manifest(disk, pl.metas, pl.enrichment_meta, clock)
          /\ pret' = [kind |-> "Ok"]
          /\ ppc' = "art_done"
          /\ UNCHANGED faults
       \/ ArtFail /\ disk' \in {disk, [disk EXCEPT !.manifest = [kind |-> "garbage"]]}
    /\ clock' = clock + 1
    /\ UNCHANGED <<crawlVars, netlog, failures, next_id, store, pcfg, pl>>
    /\ UNCHANGED enrVars

\* a later `update` of the same KB
ArtThenUpdate ==
    /\ ppc = "art_done"
    /\ pcfg' \in UpdateConfigs
    /\ ppc' = "upd_load"
    /\ pl' = NoRet
    /\ pret' = NoRet
    /\ UNCHANGED <<crawlVars, netlog, faults, failures, next_id, store, disk, clock>>
    /\ UNCHANGED enrVars

\* add_kb has assembled the KB of the chain at time 1 and calls
\* assemble_artifacts
InitArtifacts ==
    /\ cfg \in {Config(DocsRoot, MaxDepth, 1, NoPatterns, FALSE, site) : site \in UpdateSites}
    /\ cpc = "idle"
    /\ CrawlLocals(cfg)
    /\ netlog = <<>>
    /\ faults = 0
    /\ failures = 0
    /\ next_id = 1
    /\ store \in StoreBuilds(OldStore)
    /\ ppc = "art_start"
    /\ pcfg = NoRet
    /\ \E call \in ArtifactCalls :
          pl = [artifacts |-> call.artifacts, enrichment_meta |-> call.enrichment_meta,
                i |-> 1, metas |-> <<>>]
    /\ disk = [manifest |-> build_manifest([kb_id |-> KbId, name |-> "docs",
                                            source_url |-> UrlString(DocsRoot),
                                            tool_version |-> "0.1.0"], 3, 1),
               toc |-> [kind |-> "file", sections |-> build_toc([i \in 1..3 |-> OldFetched[i].meta])],
               docs |-> OldDocs, artifacts |-> <<>>]
    /\ clock = 3
    /\ pret = NoRet
    /\ EnrichIdle

NextArtifacts ==
    \/ ArtBegin \/ ArtCreateTemp \/ ArtWriteTemp \/ ArtRename \/ ArtManifest
    \/ ArtThenUpdate
    \/ UpdLoad \/ UpdDiff \/ UpdAssemble
    \/ CrawlBegin \/ TakeBatch \/ Dispatch
    \/ Acquire \/ FetchStart \/ FetchDone
    \/ Collect \/ Finish

SpecArtifacts == InitArtifacts /\ [][NextArtifacts]_vars

(***************************************************************************)
(* The Storage handle: open, open_readonly and every operation             *)
(***************************************************************************)
StorageErr == [kind |-> "Err", error |-> "Storage"]

\* Storage::check_writable
check_writable_never(handle) == [kind |-> "Ok"]

check_writable(handle) == IF handle.readonly THEN StorageErr ELSE [kind |-> "Ok"]

\* a mutating operation: self.check_writable()?, then the statement, which
\* fails when it violates a constraint of the schema and otherwise leaves
\* the tables as `after`
Execute(handle, st, violates, after) ==
    IF check_writable(handle).kind = "Err" THEN [ret |-> StorageErr, store |-> st]
    ELSE IF violates THEN [ret |-> StorageErr, store |-> st]
    ELSE [ret |-> [kind |-> "Ok"], store |-> after]

\* Storage::update_kb: UPDATE kb SET updated_at = now WHERE id = ?
touch_kb(st, id, now) ==
    [st EXCEPT !.kb = {IF r.id = id THEN [r EXCEPT !.updated_at = now] ELSE r : r \in @}]

\* Storage::invalidate_enrichment_cache: DELETE FROM enrichment_cache WHERE kb_id = ?
invalidate_enrichment_cache(st, kb_id) ==
    [st EXCEPT !.enrichment_cache = {r \in @ : r.kb_id # kb_id}]

\* kb_id REFERENCES kb(id), when the connection enforces it
NoKb(st, kb_id) == st.foreign_keys /\ \A r \in st.kb : r.id # kb_id

\* the PageMeta values, link targets and cache results handed to the operations
StoragePages ==
    {[id |-> i, kb_id |-> KbId,
      url |-> "https://docs.example.com/" \o p \o (IF i = 1 THEN "" ELSE ".html"),
      path |-> p,
      title |-> IF i = 1 THEN "Docs" ELSE "Docs (new)",
      content_hash |-> compute_hash(IF i = 1 THEN "<html></html>" ELSE "<html>new</html>"),
      fetched_at |-> i,
      status_code |-> Some(IF i = 1 THEN 200 ELSE 203),
      content_len |-> Some(IF i = 1 THEN 13 ELSE 16)] :
        i \in 1..2, p \in {"index", "page2"}}

MutatingOps ==
    {"insert_kb", "update_kb", "upsert_page", "delete_page", "insert_link",
     "insert_crawl_job", "update_crawl_job", "set_enrichment_cache",
     "invalidate_enrichment_cache"}

ReadOps == {"get_kb", "get_page", "list_pages_by_kb", "get_links_for_page", "get_enrichment_cache"}

\* the caller keeps the result of the call and which operation it was
Called(op, r) ==
    /\ pl' = [op |-> op]
    /\ pret' = r.ret
    /\ store' = r.store
    /\ UNCHANGED <<ppc, pcfg, disk, clock, crawlVars, netlog, faults, failures, next_id>>
    /\ UNCHANGED enrVars

StInsertKb ==
    /\ ppc = "storage"
    /\ Called("insert_kb",
              Execute(pcfg, store, \E r \in store.kb : r.id = KbId,
                      insert_kb(store, KbId, "docs", UrlString(DocsRoot), 1)))

StUpdateKb ==
    /\ ppc = "storage"
    /\ Called("update_kb", Execute(pcfg, store, FALSE, touch_kb(store, KbId, 2)))

\* pages.id is the primary key: an INSERT of a new (kb_id, path) under an
\* id already stored fails
StUpsertPage ==
    /\ ppc = "storage"
    /\ \E page \in StoragePages :
          Called("upsert_page",
                 Execute(pcfg, store,
                         \/ NoKb(store, page.kb_id)
                         \/ /\ get_page(store, page.kb_id, page.path) = {}
                            /\ \E r \in store.pages : r.id = page.id,
                         upsert_page(store, page)))

StDeletePage ==
    /\ ppc = "storage"
    /\ \E id \in 1..2 : Called("delete_page", Execute(pcfg, store, FALSE, delete_page(store, id)))

StInsertLink ==
    /\ ppc = "storage"
    /\ \E id \in 1..2 :
          Called("insert_link",
                 Execute(pcfg, store, store.foreign_keys /\ \A r \in store.pages : r.id # id,
                         insert_links(store, id, <<"https://docs.example.com/page2">>)))

StInsertCrawlJob ==
    /\ ppc = "storage"
    /\ Called("insert_crawl_job",
              Execute(pcfg, store, NoKb(store, KbId) \/ \E j \in store.crawl_jobs : j.id = 1,
                      insert_crawl_job(store, 1, KbId)))

StUpdateCrawlJob ==
    /\ ppc = "storage"
    /\ Called("update_crawl_job",
              Execute(pcfg, store, FALSE, update_crawl_job(store, 1, [status |-> "completed"])))

StSetCache ==
    /\ ppc = "storage"
    /\ \E result_json \in {"a", "b"} :
          Called("set_enrichment_cache",
                 Execute(pcfg, store, NoKb(store, KbId),
                         set_enrichment_cache(store, KbId, "summarize_page", "h", "m1", result_json)))

StInvalidateCache ==
    /\ ppc = "storage"
    /\ Called("invalidate_enrichment_cache",
              Execute(pcfg, store, FALSE, invalidate_enrichment_cache(store, KbId)))

\* the SELECT operations: no check_writable, and the tables exist
StRead ==
    /\ ppc = "storage"
    /\ \E op \in ReadOps : Called(op, [ret |-> [kind |-> "Ok"], store |-> store])

\* the handle is dropped and the same file is opened again, read-only or
\* not; Storage::open finds schema version 1 and applies no migration
StOpen ==
    /\ ppc = "storage"
    /\ \E readonly \in BOOLEAN :
          /\ pcfg' = [readonly |-> readonly]
          /\ pl' = [op |-> IF readonly THEN "open_readonly" ELSE "open"]
    /\ pret' = [kind |-> "Ok"]
    /\ UNCHANGED <<ppc, store, disk, clock, crawlVars, netlog, faults, failures, next_id>>
    /\ UNCHANGED enrVars

\* a database file that Storage::open created, opened again by either call
InitStorage ==
    /\ cfg \in {Config(DocsRoot, 1, 1, NoPatterns, FALSE, OldSite)}
    /\ cpc = "idle"
    /\ CrawlLocals(cfg)
    /\ netlog = <<>>
    /\ faults = 0
    /\ failures = 0
    /\ next_id = 1
    /\ store \in StoreBuilds(EmptyStore)
    /\ ppc = "storage"
    /\ pcfg \in [readonly : BOOLEAN]
    /\ pl = [op |-> IF pcfg.readonly THEN "open_readonly" ELSE "open"]
    /\ disk = EmptyDisk
    /\ clock = 1
    /\ pret = [kind |-> "Ok"]
    /\ EnrichIdle

NextStorage ==
    \/ StInsertKb \/ StUpdateKb \/ StUpsertPage \/ StDeletePage \/ StInsertLink
    \/ StInsertCrawlJob \/ StUpdateCrawlJob \/ StSetCache \/ StInvalidateCache
    \/ StRead \/ StOpen

SpecStorage == InitStorage /\ [][NextStorage]_vars

(***************************************************************************)
(* The enrichment cache under the keys run_enrichment computes             *)
(***************************************************************************)
\* the task-type strings run_enrichment passes to prompt_hash and to the cache
OrchestratorTasks == {PageTaskType(1), PageTaskType(2)} \cup {KbTasks[i] : i \in DOMAIN KbTasks}

\* contents that end the way task types begin, and one that is a task type
CacheContents ==
    {"", "hello", "hellogenerate_", "hello" \o PageTaskType(1), PageTaskType(2), "generate_skill_md"}

MaxEntries == 2

\* the lookup before a task
CacheGet ==
    /\ ppc = "cache"
    /\ \E content \in CacheContents, task_type \in OrchestratorTasks :
          /\ pl' = [op |-> "get", content |-> content, task_type |-> task_type]
          /\ pret' = get_enrichment_cache(store, KbId, task_type,
                                          prompt_hash(content, task_type), "m1")
    /\ UNCHANGED <<ppc, pcfg, store, disk, clock, crawlVars, netlog, faults, failures, next_id>>
    /\ UNCHANGED enrVars

\* the store after a task's result; the result names what it was computed from
CacheSet ==
    /\ ppc = "cache"
    /\ Cardinality(store.enrichment_cache) < MaxEntries
    /\ \E content \in CacheContents, task_type \in OrchestratorTasks :
          /\ pl' = [op |-> "set", content |-> content, task_type |-> task_type]
          /\ store' = set_enrichment_cache(store, KbId, task_type,
                                           prompt_hash(content, task_type), "m1",
                                           [content |-> content, task_type |-> task_type])
    /\ pret' = Nothing
    /\ UNCHANGED <<ppc, pcfg, disk, clock, crawlVars, netlog, faults, failures, next_id>>
    /\ UNCHANGED enrVars

InitCache ==
    /\ cfg \in {Config(DocsRoot, 1, 1, NoPatterns, FALSE, OldSite)}
    /\ cpc = "idle"
    /\ CrawlLocals(cfg)
    /\ netlog = <<>>
    /\ faults = 0
    /\ failures = 0
    /\ next_id = 1
    /\ store = KbStore
    /\ ppc = "cache"
    /\ pcfg = NoRet
    /\ pl = [op |-> "none", content |-> "", task_type |-> ""]
    /\ disk = EmptyDisk
    /\ clock = 1
    /\ pret = Nothing
    /\ EnrichIdle

NextCache == CacheGet \/ CacheSet

SpecCache == InitCache /\ [][NextCache]_vars

(***************************************************************************)
(* Markdown cleanup: run_pipeline and its seven passes                     *)
(***************************************************************************)
\* the character at i, or "" outside the text
At(s, i) == IF i \in 1..Len(s) THEN SubSeq(s, i, i) ELSE ""

\* s[from..], and whether s continues with p at position i
From(s, from) == IF from > Len(s) THEN "" ELSE SubSeq(s, from, Len(s))

HasAt(s, i, p) == i >= 1 /\ i + Len(p) - 1 <= Len(s) /\ SubSeq(s, i, i + Len(p) - 1) = p

\* str::split('\n'): every piece, the empty ones too
SplitNl(s) == Pieces(s, LineStarts(s))

\* lines.join("\n")
RECURSIVE JoinNl(_)
JoinNl(lines) ==
    IF lines = <<>> THEN ""
    ELSE IF Len(lines) = 1 THEN lines[1]
    ELSE lines[1] \o "\n" \o JoinNl(Tail(lines))

\* the first position at or after i that does not hold c
RunEnd(s, c, i) ==
    LET others == {j \in i..Len(s) : At(s, j) # c}
    IN IF others = {} THEN Len(s) + 1 ELSE CHOOSE j \in others : \A k \in others : j <= k

\* H_RE (?m)^(#{1,6})\s+(.+)$ on one line: the two captures, or Nothing.
\* \s+ is greedy but leaves (.+) one character.
H_RE(line) ==
    LET n == RunEnd(line, "#", 1) - 1
        rest == From(line, n + 1)
    IN IF n \in 1..6 /\ Len(rest) >= 2 /\ IsSpace(At(rest, 1))
       THEN Some([hashes |-> SubSeq(line, 1, n),
                  text |-> IF TrimStart(rest) = "" THEN At(rest, Len(rest)) ELSE TrimStart(rest)])
       ELSE Nothing

\* the loop of normalize_headings from line i on, h1_count H1s seen so far
RECURSIVE DemoteFrom(_, _, _)
DemoteFrom(lines, i, h1_count) ==
    IF i > Len(lines) THEN <<>>
    ELSE LET caps == H_RE(lines[i])
             h1 == caps # Nothing /\ caps[1].hashes = "#"
         IN <<IF h1 /\ h1_count + 1 > 1 THEN "## " \o caps[1].text ELSE lines[i]>>
                \o DemoteFrom(lines, i + 1, IF h1 THEN h1_count + 1 ELSE h1_count)

\* pass 1
normalize_headings(md) == JoinNl(DemoteFrom(StrLines(md), 1, 0))

\* MULTI_BLANK_RE \n{4,} replaced by three newlines, from position i on
RECURSIVE CollapseFrom(_, _)
CollapseFrom(s, i) ==
    IF i > Len(s) THEN ""
    ELSE IF At(s, i) = "\n"
         THEN LET e == RunEnd(s, "\n", i)
              IN (IF e - i >= 4 THEN "\n\n\n" ELSE SubSeq(s, i, e - 1)) \o CollapseFrom(s, e)
         ELSE LET e == Find(s, "\n", i)
              IN SubSeq(s, i, e - 1) \o CollapseFrom(s, e)

\* pass 2
clean_blank_lines(md) == CollapseFrom(md, 1)

\* \w for the characters that occur
IsWord(c) ==
    c \in {"a", "b", "c", "d", "e", "f", "g", "h", "i", "j", "k", "l", "m", "n", "o", "p", "q",
           "r", "s", "t", "u", "v", "w", "x", "y", "z", "0", "1", "2", "3", "4", "5", "6", "7",
           "8", "9", "_", "A", "B", "C", "D", "E", "F", "G", "H", "I", "J", "K", "L", "M", "N",
           "O", "P", "Q", "R", "S", "T", "U", "V", "W", "X", "Y", "Z"}

\* the code-fence mark: three backticks, written with a character that
\* string literals can hold
Fence == "~~~"

\* LANG_PREFIX_RE (?m)^```(?:language-|lang-|highlight-)(\w+) replaced by
\* ```$1, on one piece between newlines: the first prefix that matches goes
FenceSkip(line) ==
    CASE HasAt(line, 4, "language-") /\ IsWord(At(line, 13))  -> 9
      [] HasAt(line, 4, "lang-") /\ IsWord(At(line, 9))       -> 5
      [] HasAt(line, 4, "highlight-") /\ IsWord(At(line, 14)) -> 10
      [] OTHER -> 0

FixFence(line) ==
    IF HasAt(line, 1, Fence) /\ FenceSkip(line) > 0
    THEN Fence \o From(line, 4 + FenceSkip(line))
    ELSE line

\* pass 3
fix_code_block_languages(md) ==
    LET pieces == SplitNl(md) IN JoinNl([i \in 1..Len(pieces) |-> FixFence(pieces[i])])

HtmlTags ==
    {"div", "span", "section", "article", "aside", "header", "footer", "figure",
     "figcaption", "details", "summary"}

\* HTML_TAG_RE </?(?:div|..|summary)(?:\s[^>]*)?> at position i of a line:
\* the position of the closing ">", or 0 when there is no match at i
TagClose(line, after) ==
    IF At(line, after) = ">" THEN after
    ELSE IF IsSpace(At(line, after)) /\ Find(line, ">", after + 1) <= Len(line)
    THEN Find(line, ">", after + 1)
    ELSE 0

TagName(line, n) ==
    LET names == {t \in HtmlTags : HasAt(line, n, t) /\ TagClose(line, n + Len(t)) > 0}
    IN IF names = {} THEN 0 ELSE TagClose(line, n + Len(CHOOSE t \in names : TRUE))

TagEnd(line, i) ==
    IF At(line, i) # "<" THEN 0
    ELSE TagName(line, IF At(line, i + 1) = "/" THEN i + 2 ELSE i + 1)

\* strip_html_tags: replace_all(line, ""), the matches found left to right
RECURSIVE StripFrom(_, _)
StripFrom(line, i) ==
    IF i > Len(line) THEN ""
    ELSE IF TagEnd(line, i) > 0 THEN StripFrom(line, TagEnd(line, i) + 1)
    ELSE At(line, i) \o StripFrom(line, i + 1)

strip_html_tags(line) == StripFrom(line, 1)

\* the loop of strip_leftover_html from line i on
RECURSIVE StripLines(_, _, _)
StripLines(lines, i, in_code_block) ==
    IF i > Len(lines) THEN <<>>
    ELSE IF StartsWith(TrimStart(lines[i]), Fence)
         THEN <<lines[i]>> \o StripLines(lines, i + 1, ~in_code_block)
    ELSE IF in_code_block THEN <<lines[i]>> \o StripLines(lines, i + 1, in_code_block)
    ELSE <<strip_html_tags(lines[i])>> \o StripLines(lines, i + 1, in_code_block)

\* pass 4: every line followed by "\n", the last "\n" popped
strip_leftover_html(md) == JoinNl(StripLines(StrLines(md), 1, FALSE))

\* the replacement of one match [text](href) that starts at `open`
Resolved(md, base, open, text, href) ==
    IF open > 1 /\ At(md, open - 1) = "!" THEN "[" \o text \o "](" \o href \o ")"
    ELSE IF \/ StartsWith(href, "http://") \/ StartsWith(href, "https://")
            \/ StartsWith(href, "#") \/ StartsWith(href, "mailto:")
    THEN "[" \o text \o "](" \o href \o ")"
    ELSE IF UrlJoin(base, href).ok
    THEN "[" \o text \o "](" \o UrlString(UrlJoin(base, href).url) \o ")"
    ELSE "[" \o text \o "](" \o href \o ")"

\* LINK_RE \[([^\]]*)\]\(([^)]+)\) from position i on: the next "[" opens
\* a match when the first "]" after it is followed by "(", at least one
\* character and a ")"
RECURSIVE ResolveFrom(_, _, _)
ResolveAt(md, base, i, open, close, paren) ==
    IF open > Len(md) \/ close > Len(md) THEN From(md, i)
    ELSE IF At(md, close + 1) = "(" /\ paren <= Len(md) /\ paren > close + 2
    THEN SubSeq(md, i, open - 1)
            \o Resolved(md, base, open, SubSeq(md, open + 1, close - 1),
                        SubSeq(md, close + 2, paren - 1))
            \o ResolveFrom(md, base, paren + 1)
    ELSE SubSeq(md, i, open) \o ResolveFrom(md, base, open + 1)

ResolveClose(md, base, i, open, close) ==
    ResolveAt(md, base, i, open, close, Find(md, ")", close + 2))

ResolveOpen(md, base, i, open) ==
    ResolveClose(md, base, i, open, Find(md, "]", open + 1))

ResolveFrom(md, base, i) == ResolveOpen(md, base, i, Find(md, "[", i))

\* pass 5
resolve_links(md, base_url) ==
    IF base_url = Nothing THEN md ELSE ResolveFrom(md, base_url[1], 1)

\* pass 6
normalize_whitespace(md) ==
    LET lines == StrLines(md) IN JoinNl([i \in 1..Len(lines) |-> TrimEnd(lines[i])])

\* pass 7
ensure_trailing_newline(md) == TrimEndMatches(md, "\n") \o "\n"

run_pipeline(md, base_url) ==
    ensure_trailing_newline(
        normalize_whitespace(
            resolve_links(
                strip_leftover_html(
                    fix_code_block_languages(
                        clean_blank_lines(
                            normalize_headings(md)))),
                base_url)))

\* lines of Markdown as the converter can emit them
CleanupLines ==
    {"", " ", "text", "# Title", Fence \o "language-lang-js", "<d<div>iv>", "[guide](/guide)"}

MaxLines == 3

CleanupTexts ==
    UNION {{JoinNl(lines) : lines \in [1..n -> CleanupLines]} : n \in 1..MaxLines}

\* run_pipeline applied to a text, then to its own output
CleanupRun ==
    /\ ppc = "cleanup"
    /\ pl.runs < 2
    /\ pl' = [pl EXCEPT !.runs = @ + 1,
                        !.text = run_pipeline(pl.text, pcfg),
                        !.once = IF pl.runs = 0 THEN run_pipeline(pl.text, pcfg) ELSE @]
    /\ UNCHANGED <<ppc, pcfg, pret, store, disk, clock, crawlVars, netlog, faults, failures, next_id>>
    /\ UNCHANGED enrVars

InitCleanup ==
    /\ cfg \in {Config(DocsRoot, 1, 1, NoPatterns, FALSE, OldSite)}
    /\ cpc = "idle"
    /\ CrawlLocals(cfg)
    /\ netlog = <<>>
    /\ faults = 0
    /\ failures = 0
    /\ next_id = 1
    /\ store = EmptyStore
    /\ ppc = "cleanup"
    /\ pcfg \in {Nothing, Some(DocsRoot)}
    /\ \E md \in CleanupTexts : pl = [text |-> md, runs |-> 0, once |-> ""]
    /\ disk = EmptyDisk
    /\ clock = 1
    /\ pret = NoRet
    /\ EnrichIdle

NextCleanup == CleanupRun

SpecCleanup == InitCleanup /\ [][NextCleanup]_vars

(***************************************************************************)
(* toc::sort_entries                                                       *)
(***************************************************************************)
UpperCase == "ABCDEFGHIJKLMNOPQRSTUVWXYZ"

\* the characters of titles in the order of their code points
CodePoints == " -/0123456789ABCDEFGHIJKLMNOPQRSTUVWXYZ_abcdefghijklmnopqrstuvwxyz"

\* char::to_lowercase
LowerChar(c) ==
    IF Contains(UpperCase, c) THEN At("abcdefghijklmnopqrstuvwxyz", Find(UpperCase, c, 1)) ELSE c

\* str::to_lowercase
RECURSIVE to_lowercase(_)
to_lowercase(s) == IF s = "" THEN "" ELSE LowerChar(At(s, 1)) \o to_lowercase(From(s, 2))

\* Ord::cmp on str: the first differing character decides, then the length
RECURSIVE StrCmp(_, _)
StrCmp(a, b) ==
    IF a = "" /\ b = "" THEN "Equal"
    ELSE IF a = "" THEN "Less"
    ELSE IF b = "" THEN "Greater"
    ELSE IF At(a, 1) = At(b, 1) THEN StrCmp(From(a, 2), From(b, 2))
    ELSE IF Find(CodePoints, At(a, 1), 1) < Find(CodePoints, At(b, 1), 1) THEN "Less"
    ELSE "Greater"

TocEntry(title, path, children) == [title |-> title, path |-> path, children |-> children]

is_index_slash(path) == EndsWith(path, "/index") \/ path = "index"

\* a.path.ends_with("index") || a.path == "index"
is_index(path) == EndsWith(path, "index") \/ path = "index"

\* the closure handed to sort_by
EntryCmp(a, b) ==
    CASE is_index(a.path) /\ ~is_index(b.path) -> "Less"
      [] ~is_index(a.path) /\ is_index(b.path) -> "Greater"
      [] OTHER -> StrCmp(to_lowercase(a.title), to_lowercase(b.title))

\* slice::sort_by is stable: an entry goes after the entries that are not
\* greater than it
RECURSIVE InsertEntry(_, _)
InsertEntry(sorted, e) ==
    IF sorted = <<>> THEN <<e>>
    ELSE IF EntryCmp(e, Head(sorted)) = "Less" THEN <<e>> \o sorted
    ELSE <<Head(sorted)>> \o InsertEntry(Tail(sorted), e)

RECURSIVE SortBy(_)
SortBy(entries) ==
    IF entries = <<>> THEN <<>>
    ELSE InsertEntry(SortBy(SubSeq(entries, 1, Len(entries) - 1)), entries[Len(entries)])

\* sort_entries: sort the siblings, then the children of each
RECURSIVE sort_entries(_)
sort_entries(entries) ==
    LET sorted == SortBy(entries)
    IN [i \in 1..Len(sorted) |->
           IF sorted[i].children = <<>> THEN sorted[i]
           ELSE [sorted[i] EXCEPT !.children = sort_entries(@)]]

\* entries as build_toc makes them from page paths and titles
TocLeaves ==
    {TocEntry("Overview", "index", <<>>), TocEntry("Zebra", "reindex", <<>>),
     TocEntry("alpha", "alpha", <<>>), TocEntry("Beta", "beta", <<>>),
     TocEntry("Guide", "guide/index", <<>>)}

TocSections ==
    {TocEntry("Guide", "guide", <<TocEntry("Setup", "guide/setup", <<>>),
                                  TocEntry("Guide", "guide/index", <<>>),
                                  TocEntry("advanced", "guide/advanced", <<>>)>>),
     TocEntry("Api", "api", <<TocEntry("Zones", "api/reindex", <<>>),
                              TocEntry("Auth", "api/auth", <<>>)>>)}

MaxSiblings == 3

TocLists == UNION {[1..n -> TocLeaves \cup TocSections] : n \in 1..MaxSiblings}

TocSort ==
    /\ ppc = "toc_sort"
    /\ pl' = sort_entries(pl)
    /\ ppc' = "toc_sorted"
    /\ UNCHANGED <<pcfg, pret, store, disk, clock, crawlVars, netlog, faults, failures, next_id>>
    /\ UNCHANGED enrVars

InitToc ==
    /\ cfg \in {Config(DocsRoot, 1, 1, NoPatterns, FALSE, OldSite)}
    /\ cpc = "idle"
    /\ CrawlLocals(cfg)
    /\ netlog = <<>>
    /\ faults = 0
    /\ failures = 0
    /\ next_id = 1
    /\ store = EmptyStore
    /\ ppc = "toc_sort"
    /\ pcfg = NoRet
    /\ pl \in TocLists
    /\ disk = EmptyDisk
    /\ clock = 1
    /\ pret = NoRet
    /\ EnrichIdle

NextToc == TocSort

SpecToc == InitToc /\ [][NextToc]_vars

(***************************************************************************)
(* The cache key and the content sent of the per-page tasks                *)
(***************************************************************************)
\* n times the character "a"
RECURSIVE Filler(_)
Filler(n) ==
    IF n = 0 THEN ""
    ELSE LET half == Filler(n \div 2) IN half \o half \o (IF n % 2 = 1 THEN "a" ELSE "")

\* page contents just below, at and above the two budgets
KeyContents ==
    {Filler(n) \o tail : n \in {PageTaskLimit(2) - 1, PageTaskLimit(2), PageTaskLimit(1)},
                         tail \in {"", "x", "y", "xy"}}

\* run_enrichment's hash and task for each of two pages in one phase
KeyCompute ==
    /\ ppc = "key_start"
    /\ LET c == [pages |-> <<EnrichPage(EnrichMeta("a", "A"), pcfg.first),
                             EnrichPage(EnrichMeta("a", "A"), pcfg.second)>>,
                 kb_name |-> "docs", kb_source_url |-> UrlString(DocsRoot)]
           e(i) == [phase |-> pcfg.phase, i |-> i]
       IN pl' = [hash |-> [i \in 1..2 |-> CurHash(e(i), c)],
                 task |-> [i \in 1..2 |-> CurTask(e(i), c)]]
    /\ ppc' = "key_done"
    /\ UNCHANGED <<pcfg, pret, store, disk, clock, crawlVars, netlog, faults, failures, next_id>>
    /\ UNCHANGED enrVars

InitKey ==
    /\ cfg \in {Config(DocsRoot, 1, 1, NoPatterns, FALSE, OldSite)}
    /\ cpc = "idle"
    /\ CrawlLocals(cfg)
    /\ netlog = <<>>
    /\ faults = 0
    /\ failures = 0
    /\ next_id = 1
    /\ store = EmptyStore
    /\ ppc = "key_start"
    /\ pcfg \in [first : KeyContents, second : KeyContents, phase : {1, 2}]
    /\ pl = NoRet
    /\ disk = EmptyDisk
    /\ clock = 1
    /\ pret = NoRet
    /\ EnrichIdle

NextKey == KeyCompute

SpecKey == InitKey /\ [][NextKey]_vars

(***************************************************************************)
(* The cache key of the KB-level tasks in two executions                   *)
(***************************************************************************)
MaxSummaries == 3

\* results.summaries at the start of phase 3: summaries of up to
\* MaxSummaries pages
SummariesMaps ==
    UNION {[paths -> {"S1", "S2"}] : paths \in SUBSET {"a", "b", "c"}}

\* phase 3 of two run_enrichment executions whose summaries maps are equal:
\* each serializes its own HashMap and hashes the JSON with the task type
KbKeyCompute ==
    /\ ppc = "kbkey_start"
    /\ \E first \in summaries_jsons(pcfg.summaries), second \in summaries_jsons(pcfg.summaries) :
           pl' = [first  |-> [summaries_json |-> first,
                              hash |-> prompt_hash(first, KbTasks[pcfg.i])],
                  second |-> [summaries_json |-> second,
                              hash |-> prompt_hash(second, KbTasks[pcfg.i])]]
    /\ ppc' = "kbkey_done"
    /\ UNCHANGED <<pcfg, pret, store, disk, clock, crawlVars, netlog, faults, failures, next_id>>
    /\ UNCHANGED enrVars

InitKbKey ==
    /\ cfg \in {Config(DocsRoot, 1, 1, NoPatterns, FALSE, OldSite)}
    /\ cpc = "idle"
    /\ CrawlLocals(cfg)
    /\ netlog = <<>>
    /\ faults = 0
    /\ failures = 0
    /\ next_id = 1
    /\ store = EmptyStore
    /\ ppc = "kbkey_start"
    /\ pcfg \in [summaries : SummariesMaps, i : 1..Len(KbTasks)]
    /\ pl = NoRet
    /\ disk = EmptyDisk
    /\ clock = 1
    /\ pret = NoRet
    /\ EnrichIdle

NextKbKey == KbKeyCompute

SpecKbKey == InitKbKey /\ [][NextKbKey]_vars

(***************************************************************************)
(* toc::build_toc with an adapter-provided TOC                             *)
(***************************************************************************)
TocMeta(path, title, url) == [path |-> path, title |-> title, url |-> url]

\* the entry made for a page that has a title: source_url is Some(page.url)
PageEntry(page) ==
    [title |-> page.title, path |-> page.path, source_url |-> Some(page.url),
     children |-> <<>>]

\* an entry of an adapter's navigation: it carries no source_url
AdapterEntry(title, path) ==
    [title |-> title, path |-> path, source_url |-> Nothing, children |-> <<>>]

\* build_toc for pages whose paths have one segment: parent_path is None for
\* each, so section_map stays empty and build_hierarchy returns root_entries
build_toc_with(pages, adapter_toc) ==
    IF adapter_toc # <<>> /\ Len(adapter_toc) >= Len(pages) \div 2
    THEN adapter_toc
    ELSE sort_entries([i \in 1..Len(pages) |-> PageEntry(pages[i])])

MaxTocPages == 3
MaxAdapterEntries == 2

TocPages ==
    {TocMeta("a", "A", "https://example.com/a"),
     TocMeta("b", "B", "https://example.com/b"),
     TocMeta("index", "Home", "https://example.com/")}

AdapterEntries == {AdapterEntry("Alpha", "a"), AdapterEntry("Beta", "b")}

BuildToc ==
    /\ ppc = "toc_start"
    /\ pl' = build_toc_with(pcfg.pages, pcfg.adapter_toc)
    /\ ppc' = "toc_built"
    /\ UNCHANGED <<pcfg, pret, store, disk, clock, crawlVars, netlog, faults, failures, next_id>>
    /\ UNCHANGED enrVars

InitBuildToc ==
    /\ cfg \in {Config(DocsRoot, 1, 1, NoPatterns, FALSE, OldSite)}
    /\ cpc = "idle"
    /\ CrawlLocals(cfg)
    /\ netlog = <<>>
    /\ faults = 0
    /\ failures = 0
    /\ next_id = 1
    /\ store = EmptyStore
    /\ ppc = "toc_start"
    /\ pcfg \in [pages : UNION {[1..n -> TocPages] : n \in 0..MaxTocPages},
                 adapter_toc : UNION {[1..n -> AdapterEntries] : n \in 0..MaxAdapterEntries}]
    /\ pl = NoRet
    /\ disk = EmptyDisk
    /\ clock = 1
    /\ pret = NoRet
    /\ EnrichIdle

NextBuildToc == BuildToc

SpecBuildToc == InitBuildToc /\ [][NextBuildToc]_vars

(***************************************************************************)
(* Properties                                                              *)
(***************************************************************************)
CrawlFetches == {i \in 1..Len(netlog) : netlog[i].by = "crawl"}

InFlight == {i \in 1..Len(handles) : handles[i].st = "fetching"}

\* the address a URL's host text denotes: an IPv6 host is written in brackets
HostAddress(url) ==
    LET h == host_str(url) IN
    IF StartsWith(h, "[") /\ EndsWith(h, "]")
    THEN LET g == ParseIpv6(SubSeq(h, 2, Len(h) - 1)) IN
         IF g # <<>> THEN [v |-> 6, a |-> g] ELSE [v |-> 0, a |-> <<>>]
    ELSE IF ParseIpv4(h) # <<>> THEN [v |-> 4, a |-> ParseIpv4(h)]
    ELSE [v |-> 0, a |-> <<>>]

\* the SSRF rule: the URLs that must never be requested
SsrfRule(url) ==
    \/ url.scheme \notin {"http", "https"}
    \/ (HostAddress(url).v # 0 /\ is_private_ip(HostAddress(url)))
    \/ host_str(url) \in {"localhost", "127.0.0.1", "[::1]"}
    \/ EndsWith(host_str(url), ".local")
    \/ EndsWith(host_str(url), ".internal")

\* C2: with allow_localhost unset, no fetch is started for a URL the SSRF
\* rule rejects (start URL or discovered link), and each such URL that is
\* dequeued is counted as skipped.
C2_NoFetchOfSsrfTarget ==
    ~cfg.allow_localhost =>
        \A i \in CrawlFetches : ~SsrfRule(netlog[i].url)

\* the deduplication key: the URL without fragment, and without its trailing
\* slash unless the path is the root
DedupKey(url) ==
    LET s == UrlString(StripFragment(url)) IN
    IF url.path # "/" /\ EndsWith(s, "/") THEN SubSeq(s, 1, Len(s) - 1) ELSE s

C4_AtMostOneFetch ==
    \A i, j \in CrawlFetches :
        i # j => DedupKey(netlog[i].url) # DedupKey(netlog[j].url)

C4_DuplicateSkipped ==
    (cpc = "dispatch" /\ batch # <<>> /\ batch' = Tail(batch)
        /\ DedupKey(Head(batch).url) \in visited)
    => /\ pages_skipped' = pages_skipped + 1
       /\ errors' = errors
       /\ handles' = handles

\* C4: within one crawl at most one fetch is started per normalized URL,
\* under every interleaving of the workers, and every later occurrence of an
\* already-visited normalized URL increments pages_skipped and adds no error.
C4_OneFetchPerNormalizedUrl == [](C4_AtMostOneFetch) /\ [][C4_DuplicateSkipped]_vars

C4_Witness ==
    /\ cpc = "done"
    /\ cfg.concurrency = 2
    /\ \E i \in CrawlFetches : netlog[i].url.path = "/guide/"
    /\ "https://docs.example.com/guide" \in visited
    /\ pages_skipped >= 2
    /\ errors = <<>>

\* C5: at every point of a crawl the number of HTTP fetches in flight is at
\* most config.concurrency.
C5_InFlightAtMostConcurrency == Cardinality(InFlight) <= cfg.concurrency

C5_Witness == cfg.concurrency = 2 /\ Cardinality(InFlight) = 2

\* C6: no URL is fetched at a depth greater than config.depth (start URL at
\* depth 0, a link of a page of depth d at depth d + 1), links of a page at
\* depth config.depth are not enqueued, and the chain / -> /page2 -> /page3
\* with depth 1 yields exactly the pages / and /page2.
C6_DepthLimit ==
    /\ \A i \in CrawlFetches : netlog[i].depth <= cfg.depth
    /\ \A i \in 1..Len(queue) : queue[i].depth <= cfg.depth
    /\ \A i \in 1..Len(batch) : batch[i].depth <= cfg.depth
    /\ (/\ cpc = "done" /\ cfg.site.name = "chain" /\ cfg.depth = 1
        /\ cfg.start_url = DocsRoot /\ cfg.include_patterns = {} /\ failures = 0)
       => [i \in 1..Len(fetched_pages) |-> fetched_pages[i].meta.url]
            = <<"https://docs.example.com/", "https://docs.example.com/page2">>

C6_Witness ==
    /\ cpc = "done" /\ cfg.site.name = "chain" /\ cfg.depth = 1
    /\ cfg.start_url = DocsRoot /\ cfg.include_patterns = {} /\ failures = 0
    /\ Len(fetched_pages) = 2
    /\ fetched_pages[2].links = <<"https://docs.example.com/page3">>

\* the scope of a crawl as the specification defines it
ScopeRule(c, url) ==
    /\ url.scheme \in {"http", "https"}
    /\ host_str(url) = host_str(c.start_url)
    /\ ~\E e \in c.exclude_patterns : glob_to_regex(e, url.path)
    /\ (c.include_patterns = {} \/ \E p \in c.include_patterns : glob_to_regex(p, url.path))

C7_FetchedInScope == \A i \in CrawlFetches : ScopeRule(cfg, netlog[i].url)

C7_OutOfScopeSkipped ==
    (cpc = "dispatch" /\ batch # <<>> /\ batch' = Tail(batch)
        /\ ~ScopeRule(cfg, Head(batch).url))
    => /\ pages_skipped' = pages_skipped + 1
       /\ handles' = handles
       /\ netlog' = netlog

\* C7: every URL for which a fetch is started is in scope (http(s) scheme,
\* host of the start URL, no exclude glob matches its path, and an include
\* glob matches it when any is configured); every dequeued out-of-scope URL
\* is counted as skipped and never fetched.
C7_OnlyInScopeFetched == [](C7_FetchedInScope) /\ [][C7_OutOfScopeSkipped]_vars

C7_Witness ==
    /\ cpc = "done"
    /\ cfg.exclude_patterns = {"/blog/**"}
    /\ "https://other.example.com/" \in visited
    /\ "https://docs.example.com/blog/post" \in visited
    /\ "ftp://docs.example.com/file" \in visited
    /\ Len(netlog) >= 3
    /\ pages_skipped >= 3

\* C8: once the crawl-job row is inserted, crawl returns Ok whatever the
\* per-page outcomes are; every failure (network error, non-2xx status, body
\* read error, task failure, upsert failure) is in the summary's error list
\* and the rest of the queue is still processed.
C8_FailuresCollected ==
    /\ (cpc \notin {"start", "failed"} => crawl_ret.kind # "Err")
    /\ Len(errors) <= failures
    /\ (cpc \in {"loop", "done"} => Len(errors) = failures)
    /\ cpc = "done" =>
          /\ crawl_ret.kind = "Ok"
          /\ crawl_ret.result.errors = errors
          /\ queue = <<>> /\ batch = <<>> /\ handles = <<>>

C8_Witness ==
    /\ cpc = "done"
    /\ crawl_ret.kind = "Ok"
    /\ \E i \in 1..Len(errors) : errors[i].kind = "upsert"
    /\ \E i \in 1..Len(errors) : errors[i].kind \in FetchFailures
    /\ Len(fetched_pages) >= 2

\* C9: after crawl returns, the Store row of (P.kb_id, P.path) of every
\* returned page P has content_hash = SHA-256 of P's fetched body.
C9_StoreHashOfReturnedPages ==
    cpc = "done" =>
        \A i \in 1..Len(fetched_pages) :
            \E r \in get_page(store, fetched_pages[i].meta.kb_id, fetched_pages[i].meta.path) :
                r.content_hash = compute_hash(fetched_pages[i].html)

\* the same, in the runs without any injected failure
C9_CollisionFree ==
    (cpc = "done" /\ faults = 0) =>
        \A i \in 1..Len(fetched_pages) :
            \E r \in get_page(store, fetched_pages[i].meta.kb_id, fetched_pages[i].meta.path) :
                r.content_hash = compute_hash(fetched_pages[i].html)

\* C1: a successful update_kb leaves on disk a manifest whose created_at is
\* the one the manifest had before the run and whose updated_at is strictly
\* later than before the run.
C1_CreatedAtKept ==
    (ppc = "done" /\ pret.kind = "Ok") =>
        /\ disk.manifest.created_at = pl.manifest.created_at
        /\ disk.manifest.updated_at > pl.manifest.updated_at

\* C10: every task run_enrichment answers from the cache gets the text the
\* bridge would have returned for the request that would otherwise have
\* been sent for it, the bridge's answer being a deterministic function of
\* the request.
C10_CacheHitIsBridgeAnswer ==
    \A i \in 1..Len(hitlog) : hitlog[i].cached = BridgeAnswer(hitlog[i].task).text

\* C3: in add_kb with mode auto or llms-txt no HTTP request goes to a
\* loopback or private address: neither a probe for llms.txt / llms-full.txt
\* at the start URL's origin nor the fetch of a page listed in llms.txt is
\* issued when the SSRF rule rejects its host.
C3_NoDiscoveryRequestToSsrfTarget ==
    \A i \in 1..Len(netlog) :
        netlog[i].by \in {"discover", "llms"} => ~SsrfRule(netlog[i].url)

\* C11: the enrich requests written to the bridge's stdin carry the ids
\* req-1, req-2, ... in order and without gaps, and a request is written only
\* when a line, an EOF or a read error has been read for every request
\* written before it, so at most one request is outstanding.
C11_IdsInOrder ==
    /\ \A i \in 1..Len(bridge.stdin) : bridge.stdin[i].id = "req-" \o ToString(i)
    /\ Len(bridge.stdin) - bridge.reads \in {0, 1}

C11_WriteAfterRead ==
    Len(bridge'.stdin) = Len(bridge.stdin) + 1 => bridge.reads = Len(bridge.stdin)

C11_SerialRequests == [](C11_IdsInOrder) /\ [][C11_WriteAfterRead]_vars

\* the third request is outstanding, two having been answered
C11_Witness == Len(bridge.stdin) = 3 /\ bridge.reads = 2

\* C12: spawn succeeds only if the first line read from the bridge's stdout
\* is a ready frame; on any other frame, a line that is not JSON, EOF or a
\* failed spawn, run_enrichment returns an Enrichment error and no enrich
\* request is written to that bridge.
C12_ReadyOrFail ==
    /\ epc \in {"pages", "kb", "response", "shutdown"} => bridge.first = "ready"
    /\ (epc \notin {"idle", "spawn"} /\ bridge.first # "ready") =>
            /\ epc = "done"
            /\ eret = EnrErr("Enrichment")
            /\ bridge.stdin = <<>>
            /\ bridge.request_counter = 0

\* a result frame came first and run_enrichment has returned
C12_Witness == bridge.first = "result" /\ epc = "done"

\* C13: when a task fails on an error frame, a ready frame, a line that does
\* not parse or a closed stdout, run_enrichment records no result for it,
\* stores nothing in the cache, does not return, and goes on to the next
\* task of the phase or the first task of the next phase.
C13_TaskFailed ==
    /\ epc = "response"
    /\ bridge'.reads = bridge.reads + 1
    /\ bridge'.last \in {"error", "ready", "garbage", "eof"}

C13_NextTask ==
    IF el.phase = 3
    THEN IF el.i = Len(KbTasks) THEN epc' = "shutdown"
         ELSE epc' = "kb" /\ el'.phase = 3 /\ el'.i = el.i + 1
    ELSE IF el.i < Len(ecfg.pages)
         THEN epc' = "pages" /\ el'.phase = el.phase /\ el'.i = el.i + 1
         ELSE epc' = (IF el.phase = 1 THEN "pages" ELSE "kb")
                /\ el'.phase = el.phase + 1 /\ el'.i = 1

C13_FailedTaskSkipped ==
    [][C13_TaskFailed =>
          /\ el'.results = el.results
          /\ store' = store
          /\ eret' = eret
          /\ C13_NextTask]_vars

\* run_enrichment returned Ok without a summary for its first page and with
\* the SKILL.md text of a later task
C13_Witness ==
    /\ epc = "done"
    /\ eret.kind = "Ok"
    /\ ecfg.pages # <<>>
    /\ ecfg.pages[1].meta.path \notin DOMAIN eret.results.summaries
    /\ eret.results.skill_md # Nothing

\* C14: diff_pages puts each fetched path into exactly one of unchanged
\* (stored, hashes equal, not forced), changed (stored, and hashes differ or
\* forced) and new (not stored), and removed is exactly the stored paths
\* absent from the fetch.
Occurrences(list, x) == Cardinality({i \in 1..Len(list) : list[i] = x})

C14_DiffIsPartition ==
    (ppc \in {"upd_assemble", "done"} /\ "diff" \in DOMAIN pl) =>
        LET existing == pl.existing_pages
            fetched == crawl_ret.pages
            d == pl.diff
            stored(path) == \E i \in 1..Len(existing) : existing[i].path = path
            same(f) == \E i \in 1..Len(existing) :
                          /\ existing[i].path = f.meta.path
                          /\ existing[i].content_hash = f.meta.content_hash
        IN /\ \A k \in 1..Len(fetched) :
                LET f == fetched[k]
                    path == f.meta.path
                IN /\ Occurrences(d.unchanged_pages \o d.changed_pages \o d.new_pages, path) = 1
                   /\ path \in SeqToSet(d.unchanged_pages) <=>
                          (stored(path) /\ same(f) /\ ~pcfg.force)
                   /\ path \in SeqToSet(d.changed_pages) <=>
                          (stored(path) /\ (~same(f) \/ pcfg.force))
                   /\ path \in SeqToSet(d.new_pages) <=> ~stored(path)
           /\ SeqToSet(d.removed_pages) =
                  {existing[i].path : i \in 1..Len(existing)}
                      \ {fetched[k].meta.path : k \in 1..Len(fetched)}
           /\ \A path \in SeqToSet(d.removed_pages) : Occurrences(d.removed_pages, path) = 1

\* C15: after a successful update_kb with prune set, no removed path has a
\* row in the Store or a docs/<path>.md file; with prune unset the rows and
\* files of the removed paths are as they were.
C15_RemovedPagesPruned ==
    (ppc = "done" /\ pret.kind = "Ok" /\ "diff" \in DOMAIN pl) =>
        \A k \in 1..Len(pl.diff.removed_pages) :
            LET path == pl.diff.removed_pages[k]
                old == CHOOSE o \in SeqToSet(pl.existing_pages) : o.path = path
            IN IF pcfg.prune
               THEN /\ get_page(store, pl.manifest.id, path) = {}
                    /\ path \notin DOMAIN disk.docs
               ELSE /\ old \in store.pages
                    /\ path \in DOMAIN disk.docs => disk.docs[path] = OldDocs[path]

\* C16: update_kb fails, before any crawl, Store write or file write,
\* whenever manifest.json is absent or its schema_version differs from the
\* current schema version.
C16_BadManifest ==
    \/ disk.manifest.kind = "absent"
    \/ disk.manifest.kind = "file" /\ disk.manifest.schema_version # CURRENT_SCHEMA_VERSION

C16_BadManifestFailsFirst ==
    [][(ppc = "upd_load" /\ C16_BadManifest) =>
          /\ ppc' = "done"
          /\ pret'.kind = "Err"
          /\ UNCHANGED <<cpc, netlog, store, disk>>]_vars

\* C17: add_kb returns an error whenever zero pages were converted to
\* Markdown, because no page was fetched or because every conversion
\* failed, and then no KB is assembled.
C17_ZeroConverted ==
    /\ "fetched" \in DOMAIN pl
    /\ \/ ppc = "done" /\ pl.fetched = <<>>
       \/ "assembled_pages" \in DOMAIN pl /\ pl.assembled_pages = <<>>

C17_ZeroConvertedIsError ==
    C17_ZeroConverted =>
        /\ ppc = "done"
        /\ pret.kind = "Err"
        /\ disk = EmptyDisk

\* C18: discover returns the not-found result, never an error, whenever the
\* origin's llms.txt is unreachable or invalid: no response, a status that
\* is not 2xx, a body above the size limit, or a body whose first non-blank
\* line is not a heading "# Title".
C18_TitleFirst(lines, first) ==
    /\ first # 0
    /\ StartsWith(Trim(lines[first]), "# ")
    /\ Len(Trim(lines[first])) > 2

C18_Invalid(r) ==
    \/ r.kind = "network_error"
    \/ ~(r.status >= 200 /\ r.status <= 299)
    \/ r.size > MAX_RESPONSE_SIZE
    \/ ~C18_TitleFirst(StrLines(r.body), FirstNonBlank(StrLines(r.body)))

C18_InvalidIsNotFound ==
    ("discovery" \in DOMAIN pl /\ C18_Invalid(pcfg.llms)) => pl.discovery.kind = "NotFound"

\* C19: whenever manifest.json lists artifacts, i.e. from the successful
\* return of assemble_artifacts on, through any later update_kb run, each
\* listed artifact's sha256 and size_bytes are the SHA-256 and the length of
\* the bytes of artifacts/<filename> now on disk.
C19_ManifestMatchesFiles ==
    (disk.manifest.kind = "file" /\ disk.manifest.artifacts.kind = "some") =>
        \A i \in 1..Len(disk.manifest.artifacts.value) :
            LET A == disk.manifest.artifacts.value[i]
            IN /\ A.filename \in DOMAIN disk.artifacts
               /\ A.sha256 = sha256(disk.artifacts[A.filename])
               /\ A.size_bytes = len(disk.artifacts[A.filename])

C19_Witness ==
    /\ ppc = "art_done"
    /\ pret.kind = "Ok"
    /\ disk.manifest.artifacts.kind = "some"
    /\ Len(disk.manifest.artifacts.value) = 6
    /\ "SKILL.md" \in DOMAIN disk.artifacts

\* C20: while assemble_artifacts runs, artifacts/<filename> is absent or
\* holds the complete content of the artifact, never a part of it; and once
\* assemble_artifacts has returned, artifacts/ has no file whose name begins
\* with '.'.
C20_Running == ppc \in {"art_start", "art_create", "art_write", "art_rename", "art_manifest"}

C20_AtomicNoTempLeft ==
    /\ C20_Running =>
          \A i \in 1..Len(pl.artifacts) :
              pl.artifacts[i].filename \in DOMAIN disk.artifacts =>
                  disk.artifacts[pl.artifacts[i].filename] = File(pl.artifacts[i].content)
    /\ ~C20_Running => \A f \in DOMAIN disk.artifacts : ~IsDotFile(f)

C21_ReadOnlyRejects ==
    pcfg.readonly /\ pcfg'.readonly =>
        /\ \A op \in MutatingOps : pl'.op = op => (pret' = StorageErr /\ store' = store)
        /\ \A op \in ReadOps : pl'.op = op => (pret'.kind = "Ok" /\ store' = store)

C21_ReadOnlyRejectsWrites == [][C21_ReadOnlyRejects]_vars

C21_Witness ==
    /\ pcfg.readonly
    /\ pl.op = "delete_page"
    /\ pret = StorageErr
    /\ store.pages # {}
    /\ store.links # {}

\* C23: entries of different task types never share a prompt hash, whatever
\* their contents, and a lookup for one task type never returns a result
\* that was stored for another.
C23_NoCrossTaskCollision ==
    /\ \A r1, r2 \in store.enrichment_cache :
          r1.artifact_type # r2.artifact_type => r1.prompt_hash # r2.prompt_hash
    /\ (pl.op = "get" /\ pret # Nothing) => pret[1].task_type = pl.task_type

C23_Witness ==
    /\ pl.op = "get"
    /\ pret # Nothing
    /\ \E r \in store.enrichment_cache :
          r.artifact_type # pl.task_type /\ r.result_json.content = pl.content

\* C24: run_pipeline applied to its own output returns that output:
\* run_pipeline(run_pipeline(x)) = run_pipeline(x).
C24_CleanupIdempotent == pl.runs = 2 => pl.text = pl.once

\* C25: after sort_entries, among siblings the entries whose path is
\* "index" or ends in "/index", and only those, come before all the others;
\* the others are in case-insensitive title order; the same holds among the
\* children of every entry.
C25_Ordered(entries) ==
    \A i, j \in 1..Len(entries) :
        i < j =>
            /\ is_index_slash(entries[j].path) => is_index_slash(entries[i].path)
            /\ (~is_index_slash(entries[i].path) /\ ~is_index_slash(entries[j].path)) =>
                   StrCmp(to_lowercase(entries[i].title), to_lowercase(entries[j].title)) # "Greater"

C25_IndexFirstThenTitle ==
    ppc = "toc_sorted" =>
        /\ C25_Ordered(pl)
        /\ \A i \in 1..Len(pl) : C25_Ordered(pl[i].children)

\* C26: in add_kb every (page metadata, Markdown) pair handed to
\* run_enrichment, and every (title, url, content) entry of llms-full.txt,
\* joins the metadata and the Markdown of one and the same fetched page,
\* whichever conversions failed.
C26_OfOnePage(meta, markdown) ==
    \E j \in 1..Len(pl.fetched) :
        /\ pl.fetched[j].meta = meta
        /\ convert(pl.fetched[j].html, ConvertOptions(meta)).markdown = markdown

C26_PairsOfOnePage ==
    /\ ppc = "add_enrich" =>
           \A i \in 1..Len(ecfg.pages) : C26_OfOnePage(ecfg.pages[i].meta, ecfg.pages[i].content)
    /\ (ppc = "done" /\ "assembled_pages" \in DOMAIN pl /\ "llms-full.txt" \in DOMAIN disk.artifacts) =>
           LET full_pages == disk.artifacts["llms-full.txt"].content[2]
           IN \A i \in 1..Len(full_pages) :
                  \E j \in 1..Len(pl.fetched) :
                      /\ pl.fetched[j].meta.url = full_pages[i].url
                      /\ C26_OfOnePage(pl.fetched[j].meta, full_pages[i].content)

\* C27: after add_kb and update_kb runs, also runs in which a conversion
\* fails or which abort after the re-crawl, every page row whose
\* docs/<path>.md exists has there the Markdown converted from the body
\* whose SHA-256 is the row's content_hash.
C27_Served ==
    UNION {{fetch_page(s, Docs(p), 0, KbId) : p \in DOMAIN s.pages} : s \in {OldSite, cfg.site}}

C27_MarkdownOfHash(markdown, content_hash) ==
    \E f \in {g \in C27_Served : g.meta.content_hash = content_hash} :
        markdown = convert(f.html, ConvertOptions(f.meta)).markdown

C27_MarkdownMatchesHash ==
    ppc \in {"upd_load", "done"} =>
        \A r \in store.pages :
            r.path \in DOMAIN disk.docs => C27_MarkdownOfHash(disk.docs[r.path], r.content_hash)

\* C28: every execution of run_enrichment that started a bridge process has
\* performed the shutdown of that bridge, or killed it, when it returns,
\* with Ok or with Err.
C28_ShutdownBeforeReturn ==
    (epc = "done" /\ bridge.state # "none") => bridge.state \in {"shutdown", "exited", "killed"}

\* C29: BridgeHandle::shutdown returns once the shutdown frame is written,
\* also when the bridge never exits, so run_enrichment, having reached the
\* shutdown, always returns.
C29_ShutdownReturns == (epc = "shutdown") ~> (epc = "done")

\* C30: a result frame is taken as the answer to request req-N only when
\* its id is req-N: reading a result frame with another id records no result
\* and stores nothing in the cache.
C30_OtherIdRead ==
    /\ epc = "response"
    /\ bridge'.reads = bridge.reads + 1
    /\ bridge'.last = "result_other"

C30_OtherIdNotUsed ==
    [][C30_OtherIdRead => (el'.results = el.results /\ store' = store)]_vars

\* C31: the cache key of a per-page task is computed over the content as
\* clipped to the task's budget, the content sent to the bridge, so two
\* pages whose clipped contents are equal have the same key.
C31_KeyOfClippedContent ==
    ppc = "key_done" =>
        /\ \A i \in 1..2 :
               pl.hash[i] = prompt_hash(pl.task[i].content[1], PageTaskType(pcfg.phase))
        /\ pl.task[1].content = pl.task[2].content => pl.hash[1] = pl.hash[2]

\* C32: two executions of run_enrichment that reach phase 3 with equal
\* summaries maps compute equal prompt hashes for each KB-level task, so the
\* later one finds the cache entries of the earlier one.
C32_KbKeyDeterministic ==
    ppc = "kbkey_done" =>
        /\ pl.first.hash = pl.second.hash
        /\ get_enrichment_cache(
               set_enrichment_cache(EmptyStore, KbId, KbTasks[pcfg.i], pl.first.hash, "m1", "text"),
               KbId, KbTasks[pcfg.i], pl.second.hash, "m1") = Some("text")

\* C33: Crawler::crawl terminates for every finite site and every
\* CrawlConfig, every HTTP request completing.
C33_CrawlTerminates == <>(cpc \in {"done", "failed"})

\* C34: when add_kb returns an error no KB has been created: the KB
\* directory holds no manifest.json.
C34_FailedAddLeavesNoKb ==
    (ppc = "done" /\ pret.kind = "Err") => disk.manifest = NoFile

\* C35: update_kb leaves the id, name, source_url, artifacts and enrichment
\* fields of the manifest as they were before the update.
C35_ManifestFieldsKept ==
    (ppc = "done" /\ "manifest" \in DOMAIN pl) =>
        /\ disk.manifest.id = pl.manifest.id
        /\ disk.manifest.name = pl.manifest.name
        /\ disk.manifest.source_url = pl.manifest.source_url
        /\ disk.manifest.artifacts = pl.manifest.artifacts
        /\ disk.manifest.enrichment = pl.manifest.enrichment

\* C36: in run_enrichment a task whose key is in the cache writes no request
\* and increments cache_hits; a task whose key is absent writes exactly one
\* request and, when it succeeds, increments cache_misses, adds the reported
\* tokens to the totals and stores the text under the key (a failed cache
\* write is ignored); and when run_enrichment returns Ok, cache_hits +
\* cache_misses + the number of failed tasks is 2 * pages + 4.
C36_Cached ==
    get_enrichment_cache(store, EnrichKbId(ecfg.pages), CurTaskType(el), CurHash(el, ecfg),
                         ecfg.model_id)

C36_Hit ==
    (epc \in {"pages", "kb"} /\ C36_Cached # Nothing /\ eret' = eret) =>
        /\ bridge' = bridge
        /\ el'.results.cache_hits = el.results.cache_hits + 1
        /\ el'.results.cache_misses = el.results.cache_misses

C36_Miss ==
    (epc \in {"pages", "kb"} /\ C36_Cached = Nothing /\ eret' = eret) =>
        /\ bridge'.request_counter = bridge.request_counter + 1
        /\ \/ bridge'.stdin = Append(bridge.stdin, Request(bridge'.request_counter, CurTask(el, ecfg)))
           \/ bridge'.stdin = bridge.stdin /\ bridge'.last = "write_error"
        /\ el'.results.cache_hits = el.results.cache_hits
        /\ el'.results.cache_misses = el.results.cache_misses

C36_Success ==
    (epc = "response" /\ bridge'.reads = bridge.reads + 1 /\ bridge'.last = "result") =>
        LET answer == BridgeAnswer(bridge.stdin[Len(bridge.stdin)].task) IN
        /\ el'.results.cache_misses = el.results.cache_misses + 1
        /\ el'.results.cache_hits = el.results.cache_hits
        /\ el'.results.total_tokens_in = el.results.total_tokens_in + answer.tokens_in
        /\ el'.results.total_tokens_out = el.results.total_tokens_out + answer.tokens_out
        /\ \/ store' = set_enrichment_cache(store, EnrichKbId(ecfg.pages), CurTaskType(el),
                                            CurHash(el, ecfg), ecfg.model_id, answer.text)
           \/ store' = store /\ faults' > faults

C36_Totals ==
    (epc = "done" /\ eret.kind = "Ok") =>
        LET failed == bridge.request_counter - eret.results.cache_misses IN
        /\ failed >= 0
        /\ eret.results.cache_hits + eret.results.cache_misses + failed = 2 * Len(ecfg.pages) + 4

C37_Waiting == batch \o queue

C37_BreadthFirst ==
    /\ \A i, j \in 1..Len(C37_Waiting) :
         i < j => C37_Waiting[i].depth <= C37_Waiting[j].depth
    /\ \A h \in 1..Len(handles) : \A i \in 1..Len(C37_Waiting) :
         handles[h].depth <= C37_Waiting[i].depth
    /\ \A n \in CrawlFetches : \A i \in 1..Len(C37_Waiting) :
         normalize_url(netlog[n].url) = normalize_url(C37_Waiting[i].url)
           => netlog[n].depth <= C37_Waiting[i].depth

C37_Witness ==
    \E i, j \in 1..Len(queue) : \E n \in CrawlFetches :
       /\ queue[i].depth < queue[j].depth
       /\ normalize_url(netlog[n].url) = normalize_url(queue[j].url)
       /\ netlog[n].depth < queue[j].depth

\* C38: every entry of the error list that records a failed page fetch
\* (network error, non-2xx status, unreadable body or failed task) has the
\* URL of the page that failed as its first component.
C38_FetchErrorNamesUrl ==
    \A i \in 1..Len(errors) :
       errors[i].kind \in FetchFailures => errors[i].url = errors[i].about

\* C39: build_toc returns the adapter-provided TOC verbatim exactly when it
\* is non-empty and has at least ceil(pages / 2) entries, pages being the
\* number of pages; otherwise it returns the TOC built from the page paths.
C39_CeilHalf(n) == (n + 1) \div 2

C39_AdapterIffCeilHalf ==
    ppc = "toc_built" =>
       IF /\ pcfg.adapter_toc # <<>>
          /\ Len(pcfg.adapter_toc) >= C39_CeilHalf(Len(pcfg.pages))
       THEN pl = pcfg.adapter_toc
       ELSE pl = build_toc_with(pcfg.pages, <<>>)

\* C40: the Store never holds two rows with the same (kb_id, path), and a
\* successful upsert_page of a page whose (kb_id, path) is stored leaves one
\* row for it that has the new url, title, content_hash, fetched_at,
\* status_code and content_len and the id the row had before; for a new
\* (kb_id, path) the page is added as it is.
C40_OneRowPerPath ==
    \A r1, r2 \in store.pages : (r1.kb_id = r2.kb_id /\ r1.path = r2.path) => r1 = r2

C40_Replaces ==
    (pl'.op = "upsert_page" /\ pret'.kind = "Ok") =>
       \E page \in StoragePages :
          LET old == get_page(store, page.kb_id, page.path) IN
          store'.pages = (store.pages \ old) \cup
                            (IF old = {} THEN {page}
                             ELSE {[page EXCEPT !.id = r.id] : r \in old})

C40_UpsertByPath == [](C40_OneRowPerPath) /\ [][C40_Replaces]_vars

C40_Witness ==
    /\ pl.op = "upsert_page" /\ pret.kind = "Ok"
    /\ \E r \in store.pages : \E page \in StoragePages :
          r.id # page.id /\ r = [page EXCEPT !.id = r.id]

====
